---------------------------- MODULE Spec2Model ----------------------------
(***************************************************************************)
(* IdPass: the synchronisation engine between the kiosk's local ledger     *)
(* (SQLite, student_db.StudentDatabase), the remote ledger (Firestore,     *)
(* main/firebase_db.py), the sync coordinator (main/hybrid_db.py) and the  *)
(* mode controller (online_first_db.py).                                   *)
(*                                                                         *)
(* Time is counted in ticks of TickSeconds seconds since midnight of day   *)
(* 0.  A stored timestamp is a record [f, t]: t the instant, f the textual *)
(* format it is stored in ("sql" = 'YYYY-MM-DD HH:MM:SS.ffffff' as SQLite  *)
(* stores a datetime, "iso" = datetime.isoformat(), "empty" = '',          *)
(* "null" = None/NULL).                                                    *)
(***************************************************************************)
EXTENDS Integers, Sequences, FiniteSets, TLC

(* ------------------------------ bounds -------------------------------- *)
\* last tick the clock reaches
MaxClock == 5
\* the hybrid kiosk: most attendance records a ledger call may leave in its
\* ledger, and most distinct activity records (kind, student, start) it may
\* leave in the two ledgers together
MaxRec == 1
\* the online-first kiosk: most attendance records, and most distinct activity
\* records, a ledger call may leave in the two ledgers together
MaxOFRec == 2
\* most consecutive rate-limit errors the remote answers a call with
MaxFaults == 3
\* the students of the class that shares the hall pass of the sheets kiosk
MaxPasses == 11
\* the last tick of the clock of the kiosk that runs over days
MaxSweepClock == 10
\* most rows the writers leave in the Attendance worksheet
MaxSheetRows == 4

(* ------------------------- program constants --------------------------- *)
TickSeconds == 30
SecondsPerMinute == 60
TicksPerDay == 6
\* the period table (label, start, end) in ticks of the day; main/firebase_db.py
\* loads it from settings/periods, so any table is a possible configuration
Periods == << [name |-> "P1", start |-> 3, end |-> 4] >>
NoPeriod == 0 - 1
DurNull == 0 - 1

Kinds == {"bathroom", "nurse", "water"}
Tables == {"students", "attendance", "bathroom", "nurse", "water"}

\* the calls the kiosk makes: (nfc_uid, student_id) as nfc_reader_gui.py resolves
\* a scan or a keypad entry: the card UID when the student has one, else the
\* school id; "X9" is an identifier no student has
Scans == { <<"N1", "">>, <<"", "S2">>, <<"", "X9">> }
\* identifiers that start with TEST or are longer than 10 characters
LongIds == {"N1"}
\* the students enrolled: document id, nfc_uid, student_id
Enrolled == { [doc |-> "N1", nfc_uid |-> "N1", student_id |-> "S1"],
              [doc |-> "S2", nfc_uid |-> "",   student_id |-> "S2"] }

(* ------------------------------ values --------------------------------- *)
\* max_retries of HybridDatabase._retry_with_backoff
MaxRetries == 3

NULL == [f |-> "null", t |-> 0]
EMPTY == [f |-> "empty", t |-> 0]
Sql(t) == [f |-> "sql", t |-> t]
Iso(t) == [f |-> "iso", t |-> t]
\* Python truthiness of a stored timestamp: None and '' are falsy
Truthy(ts) == ts.f \in {"sql", "iso"}

DateOf(t) == t \div TicksPerDay
TimeOfDay(t) == t % TicksPerDay

VARIABLES
    clock,        \* datetime.now()
    lStudents,    \* local students table: rows [id, student_id]
    lAtt,         \* local attendance table
    lAct,         \* local bathroom_breaks / nurse_visits / water_visits tables
    rStudents,    \* remote students collection
    rAtt,         \* remote attendance collection
    rAct,         \* remote bathroom_breaks / nurse_visits / water_visits
    pending,      \* HybridDatabase.pending_changes: table -> dirty?
    firebase_db,  \* TRUE when the remote handle is set
    local_db,     \* OnlineFirstDatabase.local_db is set
    mode,         \* OnlineFirstDatabase.mode
    is_online,    \* OnlineFirstDatabase.is_online
    net,          \* the network path exists (environment)
    last,         \* the last operation the hybrid kiosk ran: [op, phases], op
                  \* "call" for a ledger call, else the name of the sync or
                  \* sweep; phases = the sync phases it went through, in order
    pc,           \* where each thread of the kiosk process is: thread -> place
    changes_lock, \* HybridDatabase.changes_lock: its holder, or "free"
    store_lock,   \* the lock of the local store: its holder, or "free"
    sync_active,  \* HybridDatabase.sync_active
    check_active, \* OnlineFirstDatabase.check_active
    next_id       \* the value get_next_id handed to each thread

vars == << clock, lStudents, lAtt, lAct, rStudents, rAtt, rAct, pending,
           firebase_db, local_db, mode, is_online, net, last,
           pc, changes_lock, store_lock, sync_active, check_active, next_id >>

storeVars == << lStudents, lAtt, lAct, rStudents, rAtt, rAct >>
modeVars == << firebase_db, local_db, mode, is_online, net >>
threadVars == << pc, changes_lock, store_lock, sync_active, check_active, next_id >>

\* no thread is looked at: the kiosk is taken one whole operation at a time
NoThreads == << >>

ThreadsIdle ==
    /\ pc = NoThreads
    /\ changes_lock = "free"
    /\ store_lock = "free"
    /\ sync_active = TRUE
    /\ check_active = TRUE
    /\ next_id = NoThreads

\* midnight of the day of now, in ticks
DayStart(now) == DateOf(now) * TicksPerDay

(* ------------------------ period scheduler ----------------------------- *)
\* FirebaseDatabase.get_period_for_time: the first period with
\* start <= t <= end (both ends inclusive); its end, or NoPeriod
get_period_for_time(now) ==
    LET t == TimeOfDay(now)
        hits == { i \in 1..Len(Periods) :
                    Periods[i].start <= t /\ t <= Periods[i].end }
    IN  IF hits = {} THEN NoPeriod
        ELSE LET first == CHOOSE i \in hits : \A j \in hits : i <= j
             IN  Periods[first].end

\* minutes rounded to the nearest whole number
DurationMinutes_rounded(start, end) ==
    ((end - start) * TickSeconds + SecondsPerMinute \div 2) \div SecondsPerMinute

\* int((end - start).total_seconds() / 60)
DurationMinutes(start, end) ==
    ((end - start) * TickSeconds) \div SecondsPerMinute

(* ------------------ remote ledger: FirebaseDatabase -------------------- *)
get_identifier(nfc_uid, student_id) ==
    IF nfc_uid # "" THEN nfc_uid ELSE student_id

Fb_get_student_by_uid(students, nfc_uid) ==
    \E s \in students : s.doc = nfc_uid

Fb_get_student_by_student_id(students, student_id) ==
    \E s \in students : s.student_id = student_id

Fb_is_checked_in(att, identifier, now) ==
    \E a \in att : a.uid = identifier /\ a.date = DateOf(now)

\* the open documents of one student in one activity collection
Fb_open_of(coll, identifier) ==
    { d \in coll : d.uid = identifier /\ d.end = NULL }

\* check_in without the test for a record of today
Fb_check_in_unguarded(students, att, nfc_uid, student_id, now) ==
    LET identifier == get_identifier(nfc_uid, student_id)
        found == IF nfc_uid # ""
                 THEN Fb_get_student_by_uid(students, nfc_uid)
                 ELSE Fb_get_student_by_student_id(students, student_id)
        period_end == get_period_for_time(now)
        scheduled == IF period_end # NoPeriod
                     THEN Iso(DayStart(now) + period_end) ELSE EMPTY
        doc == [doc |-> <<"auto", identifier, now>>, uid |-> identifier,
                date |-> DateOf(now), cin |-> Iso(now), cout |-> EMPTY,
                sched |-> scheduled]
    IN  IF identifier = ""
        THEN [ok |-> FALSE, msg |-> "No student identifier provided", att |-> att]
        ELSE IF ~found
        THEN [ok |-> FALSE, msg |-> "Student not found in database", att |-> att]
        ELSE [ok |-> TRUE, msg |-> "Checked in successfully", att |-> att \cup {doc}]

\* FirebaseDatabase.check_in: [ok, msg, att]
Fb_check_in(students, att, nfc_uid, student_id, now) ==
    LET identifier == get_identifier(nfc_uid, student_id)
        found == IF nfc_uid # ""
                 THEN Fb_get_student_by_uid(students, nfc_uid)
                 ELSE Fb_get_student_by_student_id(students, student_id)
        period_end == get_period_for_time(now)
        scheduled == IF period_end # NoPeriod
                     THEN Iso(DayStart(now) + period_end) ELSE EMPTY
        doc == [doc |-> <<"auto", identifier, now>>, uid |-> identifier,
                date |-> DateOf(now), cin |-> Iso(now), cout |-> EMPTY,
                sched |-> scheduled]
    IN  IF identifier = ""
        THEN [ok |-> FALSE, msg |-> "No student identifier provided", att |-> att]
        ELSE IF ~found
        THEN [ok |-> FALSE, msg |-> "Student not found in database", att |-> att]
        ELSE IF Fb_is_checked_in(att, identifier, now)
        THEN [ok |-> FALSE, msg |-> "Already checked in today", att |-> att]
        ELSE [ok |-> TRUE, msg |-> "Checked in successfully", att |-> att \cup {doc}]

\* the auto check-in of start_bathroom_break / start_nurse_visit /
\* start_water_visit: by card UID when the identifier looks like one
Fb_auto_check_in(students, att, identifier, now) ==
    IF Fb_is_checked_in(att, identifier, now)
    THEN [ok |-> TRUE, msg |-> "", att |-> att]
    ELSE IF identifier \in LongIds
         THEN Fb_check_in(students, att, identifier, "", now)
         ELSE Fb_check_in(students, att, "", identifier, now)

\* end_bathroom_break / end_nurse_visit / end_water_visit: the first open
\* document of the query (pick) is closed; [ok, msg, coll]
Fb_end_activity(coll, identifier, now, pick) ==
    IF Fb_open_of(coll, identifier) = {}
    THEN [ok |-> FALSE, msg |-> "not out", coll |-> coll]
    ELSE [ok |-> TRUE, msg |-> "ended",
          coll |-> (coll \ {pick}) \cup
                   {[pick EXCEPT !.end = Iso(now),
                                 !.dur = DurationMinutes(pick.start.t, now)]}]

\* start_bathroom_break / start_nurse_visit / start_water_visit:
\* [ok, msg, att, coll]
Fb_start_activity(k, students, att, coll, identifier, now, pick) ==
    LET ci == Fb_auto_check_in(students, att, identifier, now)
        ended == Fb_end_activity(coll, identifier, now, pick)
        doc == [doc |-> <<"auto", identifier, now>>, uid |-> identifier,
                start |-> Iso(now), end |-> NULL, dur |-> DurNull]
    IN  IF ~ci.ok
        THEN [ok |-> FALSE, msg |-> "Auto-check-in failed", att |-> att, coll |-> coll]
        ELSE IF Fb_open_of(coll, identifier) # {}
        THEN [ok |-> TRUE, msg |-> "Previous ended", att |-> ci.att, coll |-> ended.coll]
        ELSE IF k = "bathroom" /\ \E d \in coll : d.end = NULL /\ d.uid # identifier
        THEN [ok |-> FALSE, msg |-> "Another student is already on a break",
              att |-> ci.att, coll |-> coll]
        ELSE [ok |-> TRUE, msg |-> "started", att |-> ci.att, coll |-> coll \cup {doc}]

\* FirebaseDatabase._auto_end_breaks_and_visits_at_period_end on one collection
Fb_auto_end(coll, now) ==
    LET period_end_time == get_period_for_time(now)
        period_end_dt == DayStart(now) + period_end_time
    IN  IF period_end_time = NoPeriod THEN coll
        ELSE IF now <= period_end_dt THEN coll
        ELSE { IF d.end = NULL /\ Truthy(d.start) /\ d.start.t < period_end_dt
               THEN [d EXCEPT !.end = Iso(period_end_dt),
                              !.dur = DurationMinutes(d.start.t, period_end_dt)]
               ELSE d : d \in coll }

\* FirebaseDatabase.auto_checkout_students, the attendance part
Fb_auto_checkout(att, now) ==
    { IF a.date = DateOf(now) /\ a.cout = EMPTY /\ Truthy(a.sched)
         /\ a.sched.t <= now
      THEN [a EXCEPT !.cout = Iso(now)] ELSE a : a \in att }

(* ----------------- local ledger: student_db.StudentDatabase ------------ *)
\* student_db.py is not part of the sources at hand; the local store follows
\* the specification's sections 3, 4.1 and 4.5.
L_get_student_by_uid(students, nfc_uid) ==
    \E s \in students : s.id = nfc_uid

L_get_student_by_student_id(students, student_id) ==
    \E s \in students : s.student_id = student_id

L_is_checked_in(att, identifier, now) ==
    \E a \in att : a.uid = identifier /\ a.date = DateOf(now)

L_open_of(tbl, identifier) ==
    { r \in tbl : r.uid = identifier /\ r.end = NULL }

\* checkIn: a repeat check-in on the same date fails; [ok, msg, att]
L_check_in(students, att, nfc_uid, student_id, now) ==
    LET identifier == get_identifier(nfc_uid, student_id)
        found == IF nfc_uid # ""
                 THEN L_get_student_by_uid(students, nfc_uid)
                 ELSE L_get_student_by_student_id(students, student_id)
        period_end == get_period_for_time(now)
        scheduled == IF period_end # NoPeriod
                     THEN Sql(DayStart(now) + period_end) ELSE NULL
        row == [uid |-> identifier, date |-> DateOf(now), cin |-> Sql(now),
                cout |-> NULL, sched |-> scheduled]
    IN  IF identifier = ""
        THEN [ok |-> FALSE, msg |-> "No student identifier provided", att |-> att]
        ELSE IF ~found
        THEN [ok |-> FALSE, msg |-> "Student not found in database", att |-> att]
        ELSE IF L_is_checked_in(att, identifier, now)
        THEN [ok |-> FALSE, msg |-> "Already checked in today", att |-> att]
        ELSE [ok |-> TRUE, msg |-> "Checked in successfully", att |-> att \cup {row}]

\* the auto check-in of an activity start: the identifier is tried as a
\* school id, then as a card UID
L_auto_check_in(students, att, identifier, now) ==
    IF L_is_checked_in(att, identifier, now)
    THEN [ok |-> TRUE, msg |-> "", att |-> att]
    ELSE IF L_get_student_by_student_id(students, identifier)
         THEN L_check_in(students, att, "", identifier, now)
         ELSE L_check_in(students, att, identifier, "", now)

\* startActivity(kind): for bathroom the single hall pass; [ok, msg, att, tbl]
L_start_activity(k, students, att, tbl, identifier, now) ==
    LET ci == L_auto_check_in(students, att, identifier, now)
        row == [uid |-> identifier, start |-> Sql(now), end |-> NULL,
                dur |-> DurNull]
    IN  IF ~ci.ok
        THEN [ok |-> FALSE, msg |-> "Auto-check-in failed", att |-> att, tbl |-> tbl]
        ELSE IF k = "bathroom" /\ \E r \in tbl : r.end = NULL
        THEN [ok |-> FALSE, msg |-> "Another student is already on a break",
              att |-> ci.att, tbl |-> tbl]
        ELSE IF L_open_of(tbl, identifier) # {}
        THEN [ok |-> FALSE, msg |-> "Already out", att |-> ci.att, tbl |-> tbl]
        ELSE [ok |-> TRUE, msg |-> "started", att |-> ci.att, tbl |-> tbl \cup {row}]

\* endActivity(kind): closes the student's open record; [ok, msg, tbl]
L_end_activity(tbl, identifier, now) ==
    IF L_open_of(tbl, identifier) = {}
    THEN [ok |-> FALSE, msg |-> "not out", tbl |-> tbl]
    ELSE [ok |-> TRUE, msg |-> "ended",
          tbl |-> { IF r.uid = identifier /\ r.end = NULL
                    THEN [r EXCEPT !.end = Sql(now),
                                   !.dur = DurationMinutes(r.start.t, now)]
                    ELSE r : r \in tbl }]

\* the boundary sweep's attendance part: every open record whose scheduled
\* check-out has passed is closed at the current time
L_auto_checkout(att, now) ==
    { IF a.cout = NULL /\ Truthy(a.sched) /\ a.sched.t <= now
      THEN [a EXCEPT !.cout = Sql(now)] ELSE a : a \in att }

(* ------------- sync coordinator: main/hybrid_db.HybridDatabase --------- *)
track_change(p, table) == [p EXCEPT ![table] = TRUE]

\* a check-in that marks attendance dirty whatever the ledger answered
Hy_check_in_always_tracks(students, att, p, nfc_uid, student_id, now) ==
    LET r == L_check_in(students, att, nfc_uid, student_id, now)
    IN  [ok |-> r.ok, msg |-> r.msg, att |-> r.att,
         p |-> track_change(p, "attendance")]

\* HybridDatabase.check_in: [ok, msg, att, p]
Hy_check_in(students, att, p, nfc_uid, student_id, now) ==
    LET r == L_check_in(students, att, nfc_uid, student_id, now)
    IN  [ok |-> r.ok, msg |-> r.msg, att |-> r.att,
         p |-> IF r.ok THEN track_change(p, "attendance") ELSE p]

\* the auto check-in of HybridDatabase.start_bathroom_break
Hy_auto_check_in_break(students, att, p, identifier, now) ==
    IF L_is_checked_in(att, identifier, now)
    THEN [ok |-> TRUE, msg |-> "", att |-> att, p |-> p]
    ELSE IF L_get_student_by_student_id(students, identifier)
    THEN Hy_check_in(students, att, p, "", identifier, now)
    ELSE IF L_get_student_by_uid(students, identifier)
    THEN Hy_check_in(students, att, p, identifier, "", now)
    ELSE [ok |-> FALSE, msg |-> "Student not found", att |-> att, p |-> p]

\* the auto check-in of HybridDatabase.start_nurse_visit / start_water_visit
Hy_auto_check_in_visit(students, att, p, nfc_uid, student_id, now) ==
    IF L_is_checked_in(att, get_identifier(nfc_uid, student_id), now)
    THEN [ok |-> TRUE, msg |-> "", att |-> att, p |-> p]
    ELSE Hy_check_in(students, att, p, nfc_uid, student_id, now)

\* a start that creates the activity record without the auto check-in
Hy_start_activity_no_check_in(k, students, att, tbl, p, nfc_uid, student_id, now) ==
    LET identifier == get_identifier(nfc_uid, student_id)
        known == \/ L_get_student_by_student_id(students, identifier)
                 \/ L_get_student_by_uid(students, identifier)
        row == [uid |-> identifier, start |-> Sql(now), end |-> NULL,
                dur |-> DurNull]
        free == /\ L_open_of(tbl, identifier) = {}
                /\ ~(k = "bathroom" /\ \E r \in tbl : r.end = NULL)
    IN  IF identifier # "" /\ known /\ free
        THEN [ok |-> TRUE, msg |-> "started", att |-> att, tbl |-> tbl \cup {row},
              p |-> track_change(p, k)]
        ELSE [ok |-> FALSE, msg |-> "failed", att |-> att, tbl |-> tbl, p |-> p]

\* HybridDatabase.start_bathroom_break / start_nurse_visit /
\* start_water_visit: [ok, msg, att, tbl, p]
Hy_start_activity(k, students, att, tbl, p, nfc_uid, student_id, now) ==
    LET identifier == get_identifier(nfc_uid, student_id)
        ci == IF k = "bathroom"
              THEN Hy_auto_check_in_break(students, att, p, identifier, now)
              ELSE Hy_auto_check_in_visit(students, att, p, nfc_uid, student_id, now)
        r == L_start_activity(k, students, ci.att, tbl, identifier, now)
    IN  IF identifier = ""
        THEN [ok |-> FALSE, msg |-> "No student identifier provided",
              att |-> att, tbl |-> tbl, p |-> p]
        ELSE IF ~ci.ok
        THEN [ok |-> FALSE, msg |-> ci.msg, att |-> ci.att, tbl |-> tbl, p |-> ci.p]
        ELSE [ok |-> r.ok, msg |-> r.msg, att |-> r.att, tbl |-> r.tbl,
              p |-> IF r.ok THEN track_change(ci.p, k) ELSE ci.p]

\* HybridDatabase.end_bathroom_break / end_nurse_visit / end_water_visit
Hy_end_activity(k, tbl, p, identifier, now) ==
    LET r == L_end_activity(tbl, identifier, now)
    IN  [ok |-> r.ok, msg |-> r.msg, tbl |-> r.tbl,
         p |-> IF r.ok THEN track_change(p, k) ELSE p]

\* HybridDatabase._auto_end_breaks_and_visits_at_period_end on one table:
\* [tbl, hit]; hit = a record was closed, so the table is tracked as changed
Hy_auto_end(tbl, now, connected) ==
    LET period_end_time == IF connected THEN get_period_for_time(now) ELSE NoPeriod
        period_end_dt == DayStart(now) + period_end_time
        due == { r \in tbl : r.end = NULL /\ Truthy(r.start)
                             /\ r.start.t < period_end_dt }
    IN  IF period_end_time = NoPeriod \/ now <= period_end_dt
        THEN [tbl |-> tbl, hit |-> FALSE]
        ELSE [tbl |-> { IF r \in due
                        THEN [r EXCEPT !.end = Sql(period_end_dt),
                                       !.dur = DurationMinutes(r.start.t, period_end_dt)]
                        ELSE r : r \in tbl },
              hit |-> due # {}]

(* --------------------------- pull (remote -> local) -------------------- *)
\* the order in which a query hands back documents: documents with a generated
\* id before documents with a composite-key id
NextDoc(docs) ==
    CHOOSE d \in docs : d.doc[1] = "auto" \/ \A e \in docs : e.doc[1] # "auto"

\* HybridDatabase._sync_students_from_firestore: INSERT OR REPLACE by id
sync_students_from_firestore(ls, rs) ==
    LET rows == { [id |-> d.doc, student_id |-> d.student_id] :
                    d \in { x \in rs : x.student_id # "" } }
    IN  { l \in ls : \A r \in rows : r.id # l.id } \cup rows

\* INSERT OR REPLACE of one remote attendance document, key (student_uid, date)
ReplaceAttendance(la, d) ==
    { a \in la : ~(a.uid = d.uid /\ a.date = d.date) }
      \cup { [uid |-> d.uid, date |-> d.date, cin |-> d.cin, cout |-> d.cout,
              sched |-> d.sched] }

RECURSIVE AttendanceFold(_, _)
AttendanceFold(la, docs) ==
    IF docs = {} THEN la
    ELSE LET d == NextDoc(docs)
         IN  AttendanceFold(ReplaceAttendance(la, d), docs \ {d})

\* HybridDatabase._sync_attendance_from_firestore: today's documents
sync_attendance_from_firestore(la, ra, now) ==
    AttendanceFold(la, { d \in ra : d.date = DateOf(now) })

\* a merge that takes the remote end and duration whenever the record exists
MergeActivity_overwrite(tbl, d) ==
    LET normalized_start == Sql(d.start.t)
        hits == { r \in tbl : r.uid = d.uid
                              /\ (r.start = d.start \/ r.start = normalized_start) }
    IN  IF hits # {}
        THEN LET existing == CHOOSE r \in hits : TRUE
             IN  (tbl \ {existing})
                   \cup {[existing EXCEPT !.end = d.end, !.dur = d.dur]}
        ELSE tbl \cup {[uid |-> d.uid, start |-> d.start, end |-> d.end,
                        dur |-> d.dur]}

\* a merge that only inserts: a record the local table already holds is left
\* as it is, open or closed
MergeActivity_insert_only(tbl, d) ==
    LET normalized_start == Sql(d.start.t)
        hits == { r \in tbl : r.uid = d.uid
                              /\ (r.start = d.start \/ r.start = normalized_start) }
    IN  IF hits # {} THEN tbl
        ELSE tbl \cup {[uid |-> d.uid, start |-> d.start, end |-> d.end,
                        dur |-> d.dur]}

\* the merge of one remote activity document into the local table
MergeActivity(tbl, d) ==
    LET normalized_start == Sql(d.start.t)
        hits == { r \in tbl : r.uid = d.uid
                              /\ (r.start = d.start \/ r.start = normalized_start) }
    IN  IF hits # {}
        THEN LET existing == CHOOSE r \in hits : TRUE
             IN  IF existing.end = NULL /\ Truthy(d.end)
                 THEN (tbl \ {existing})
                        \cup {[existing EXCEPT !.end = d.end, !.dur = d.dur]}
                 ELSE tbl
        ELSE tbl \cup {[uid |-> d.uid, start |-> d.start, end |-> d.end,
                        dur |-> d.dur]}

RECURSIVE ActivityFold(_, _)
ActivityFold(tbl, docs) ==
    IF docs = {} THEN tbl
    ELSE LET d == NextDoc(docs)
         IN  ActivityFold(MergeActivity(tbl, d), docs \ {d})

\* HybridDatabase._sync_breaks_from_firestore / _sync_nurse_visits_from_firestore
\* / _sync_water_visits_from_firestore: the documents that started today
sync_activity_from_firestore(tbl, coll, now) ==
    ActivityFold(tbl, { d \in coll : Truthy(d.start)
                                     /\ DateOf(d.start.t) = DateOf(now) })

\* HybridDatabase.sync_from_firestore: [ls, la, lact]
sync_from_firestore(ls, la, lact, rs, ra, ract, now, connected) ==
    IF ~connected
    THEN [ls |-> ls, la |-> la, lact |-> lact]
    ELSE [ls |-> sync_students_from_firestore(ls, rs),
          la |-> sync_attendance_from_firestore(la, ra, now),
          lact |-> [k \in Kinds |->
                      sync_activity_from_firestore(lact[k], ract[k], now)]]

(* --------------------------- push (local -> remote) -------------------- *)
\* the conversion of check_in / check_out / scheduled_check_out: strptime on
\* the SQLite formats, a string of another format is kept, None and '' give ''
to_iso_attendance(ts) ==
    IF ts.f = "sql" THEN Iso(ts.t) ELSE IF ts.f = "iso" THEN ts ELSE EMPTY

\* the conversion of break_start / visit_start: None gives ''
to_iso_start(ts) ==
    IF ts.f = "sql" THEN Iso(ts.t) ELSE IF ts.f = "null" THEN EMPTY ELSE ts

\* the conversion of break_end / visit_end: None stays None
to_iso_end(ts) ==
    IF ts.f = "sql" THEN Iso(ts.t) ELSE ts

\* JOIN students s ON x.student_uid = s.id OR x.student_uid = s.student_id
Joined(ls, uid) ==
    \E s \in ls : s.id = uid \/ s.student_id = uid

\* collection.document(id).set(data) for a set of documents
SetDocs(coll, docs) ==
    { d \in coll : \A n \in docs : n.doc # d.doc } \cup docs

\* HybridDatabase._sync_students_to_firestore
sync_students_to_firestore(ls, rs) ==
    SetDocs(rs, { [doc |-> s.id,
                   nfc_uid |-> IF s.id # s.student_id THEN s.id ELSE "",
                   student_id |-> s.student_id] : s \in ls })

\* HybridDatabase._sync_attendance_to_firestore: today's rows of known students
sync_attendance_to_firestore(ls, la, ra, now) ==
    SetDocs(ra, { [doc |-> <<"key", a.uid, a.date>>, uid |-> a.uid,
                   date |-> a.date, cin |-> to_iso_attendance(a.cin),
                   cout |-> to_iso_attendance(a.cout),
                   sched |-> to_iso_attendance(a.sched)] :
                  a \in { x \in la : x.date = DateOf(now) /\ Joined(ls, x.uid) } })

\* the duration a push writes: bathroom breaks get None for an open break
duration_value(k, end_iso, duration) ==
    IF k # "bathroom" THEN duration
    ELSE IF duration = DurNull THEN DurNull
    ELSE IF end_iso = NULL THEN DurNull
    ELSE duration

\* HybridDatabase._sync_breaks_to_firestore / _sync_nurse_visits_to_firestore /
\* _sync_water_visits_to_firestore: the rows that started today
sync_activity_to_firestore(k, ls, tbl, coll, now) ==
    SetDocs(coll, { [doc |-> <<"key", r.uid, r.start.t>>, uid |-> r.uid,
                     start |-> to_iso_start(r.start), end |-> to_iso_end(r.end),
                     dur |-> duration_value(k, to_iso_end(r.end), r.dur)] :
                    r \in { x \in tbl : Truthy(x.start)
                                        /\ DateOf(x.start.t) = DateOf(now)
                                        /\ Joined(ls, x.uid) } })

\* the order in which sync_to_firestore takes the tables
PushOrder == << "students", "attendance", "bathroom", "nurse", "water" >>

PushIndex(table) == CHOOSE i \in 1..Len(PushOrder) : PushOrder[i] = table

NoPending == [t \in Tables |-> FALSE]

\* the answers of the remote to the successive calls of one function: "ok" or
\* the message of the exception it raises
QuotaMessages == {"429 Too Many Requests", "Quota exceeded"}
OtherMessages == {"500 Internal error"}

\* "429" in error_msg or "Quota exceeded" in error_msg
is_quota_error(error_msg) == error_msg \in QuotaMessages

\* the answer to call number i; the remote answers ok once the listed answers
\* are used up
Answer(answers, i) == IF i <= Len(answers) THEN answers[i] ELSE "ok"

\* a wrapper that takes every error for a rate-limit error
RECURSIVE retry_attempts_any_error(_, _, _, _)
retry_attempts_any_error(answers, attempt, max_retries, waits) ==
    IF attempt >= max_retries
    THEN [ok |-> TRUE, calls |-> attempt, waits |-> waits, raised |-> "none"]
    ELSE LET a == Answer(answers, attempt + 1)
         IN  IF a = "ok"
             THEN [ok |-> TRUE, calls |-> attempt + 1, waits |-> waits,
                   raised |-> "none"]
             ELSE IF attempt < max_retries - 1
             THEN retry_attempts_any_error(answers, attempt + 1, max_retries,
                                           waits + 1)
             ELSE [ok |-> FALSE, calls |-> attempt + 1, waits |-> waits,
                   raised |-> a]

\* HybridDatabase._retry_with_backoff, the loop from attempt on: [ok, calls,
\* waits, raised]: calls of func so far, sleeps so far, the message of the
\* exception that leaves the wrapper ("none": it returns)
RECURSIVE retry_attempts(_, _, _, _)
retry_attempts(answers, attempt, max_retries, waits) ==
    IF attempt >= max_retries
    THEN [ok |-> TRUE, calls |-> attempt, waits |-> waits, raised |-> "none"]
    ELSE LET a == Answer(answers, attempt + 1)
         IN  IF a = "ok"
             THEN [ok |-> TRUE, calls |-> attempt + 1, waits |-> waits,
                   raised |-> "none"]
             ELSE IF is_quota_error(a)
             THEN IF attempt < max_retries - 1
                  THEN retry_attempts(answers, attempt + 1, max_retries, waits + 1)
                  ELSE [ok |-> FALSE, calls |-> attempt + 1, waits |-> waits,
                        raised |-> a]
             ELSE [ok |-> FALSE, calls |-> attempt + 1, waits |-> waits,
                   raised |-> a]

\* n rate-limit errors in a row, then the answer final
Answers(n, final) ==
    [i \in 1..(n + 1) |-> IF i <= n THEN "429 Too Many Requests" ELSE final]

\* HybridDatabase._retry_with_backoff: a call the remote answers with n
\* rate-limit errors in a row goes through within max_retries attempts
retry_with_backoff(n, max_retries) ==
    retry_attempts(Answers(n, "ok"), 0, max_retries, 0).ok

\* a push that clears the dirty set whether or not a remote call failed
sync_to_firestore_always_clears(ls, la, lact, rs, ra, ract, p, now, connected, failAt, n) ==
    LET failing == n > 0 /\ p[failAt]
        done(t) == p[t] /\ (~failing \/ PushIndex(t) < PushIndex(failAt))
    IN  IF ~connected \/ p = NoPending
        THEN [ok |-> TRUE, ran |-> FALSE, faults |-> 0,
              rs |-> rs, ra |-> ra, ract |-> ract, p |-> p]
        ELSE [ok |-> ~failing, ran |-> TRUE,
              faults |-> IF failing THEN n ELSE 0,
              rs |-> IF done("students")
                     THEN sync_students_to_firestore(ls, rs) ELSE rs,
              ra |-> IF done("attendance")
                     THEN sync_attendance_to_firestore(ls, la, ra, now) ELSE ra,
              ract |-> [k \in Kinds |->
                          IF done(k)
                          THEN sync_activity_to_firestore(k, ls, lact[k], ract[k], now)
                          ELSE ract[k]],
              p |-> NoPending]

\* HybridDatabase.sync_to_firestore.  The remote answers the first call for
\* table failAt with n rate-limit errors in a row; no call is wrapped in
\* _retry_with_backoff, so the first error ends the push.
\* [ok, ran, faults, rs, ra, ract, p]
sync_to_firestore(ls, la, lact, rs, ra, ract, p, now, connected, failAt, n) ==
    LET failing == n > 0 /\ p[failAt]
        done(t) == p[t] /\ (~failing \/ PushIndex(t) < PushIndex(failAt))
    IN  IF ~connected \/ p = NoPending
        THEN [ok |-> TRUE, ran |-> FALSE, faults |-> 0,
              rs |-> rs, ra |-> ra, ract |-> ract, p |-> p]
        ELSE [ok |-> ~failing, ran |-> TRUE,
              faults |-> IF failing THEN n ELSE 0,
              rs |-> IF done("students")
                     THEN sync_students_to_firestore(ls, rs) ELSE rs,
              ra |-> IF done("attendance")
                     THEN sync_attendance_to_firestore(ls, la, ra, now) ELSE ra,
              ract |-> [k \in Kinds |->
                          IF done(k)
                          THEN sync_activity_to_firestore(k, ls, lact[k], ract[k], now)
                          ELSE ract[k]],
              p |-> IF failing THEN p ELSE NoPending]

\* a force sync that pulls before it pushes
force_sync_pull_first(ls, la, lact, rs, ra, ract, p, now, connected, failAt, n) ==
    LET pull == sync_from_firestore(ls, la, lact, rs, ra, ract, now, connected)
        push == sync_to_firestore(pull.ls, pull.la, pull.lact, rs, ra, ract, p,
                                  now, connected, failAt, n)
    IN  [ok |-> push.ok, faults |-> push.faults, phases |-> << "pull", "push" >>,
         ls |-> pull.ls, la |-> pull.la, lact |-> pull.lact,
         rs |-> push.rs, ra |-> push.ra, ract |-> push.ract, p |-> push.p]

\* HybridDatabase.force_sync: sync_to_firestore, then sync_from_firestore
force_sync(ls, la, lact, rs, ra, ract, p, now, connected, failAt, n) ==
    LET push == sync_to_firestore(ls, la, lact, rs, ra, ract, p, now,
                                  connected, failAt, n)
        pull == sync_from_firestore(ls, la, lact, push.rs, push.ra, push.ract,
                                    now, connected)
    IN  [ok |-> push.ok, faults |-> push.faults, phases |-> << "push", "pull" >>,
         ls |-> pull.ls, la |-> pull.la, lact |-> pull.lact,
         rs |-> push.rs, ra |-> push.ra, ract |-> push.ract, p |-> push.p]

\* one round of HybridDatabase._sync_worker: sync_from_firestore, then
\* sync_to_firestore
sync_worker(ls, la, lact, rs, ra, ract, p, now, connected, failAt, n) ==
    LET pull == sync_from_firestore(ls, la, lact, rs, ra, ract, now, connected)
        push == sync_to_firestore(pull.ls, pull.la, pull.lact, rs, ra, ract, p,
                                  now, connected, failAt, n)
    IN  [ok |-> push.ok, faults |-> push.faults, phases |-> << "pull", "push" >>,
         ls |-> pull.ls, la |-> pull.la, lact |-> pull.lact,
         rs |-> push.rs, ra |-> push.ra, ract |-> push.ract, p |-> push.p]

\* HybridDatabase.auto_checkout_students: [la, lact, p]
Hy_auto_checkout_students(la, lact, p, now, connected) ==
    LET la2 == L_auto_checkout(la, now)
        p2 == IF \E a \in la2 : a.date = DateOf(now) /\ a.cout # NULL
              THEN track_change(p, "attendance") ELSE p
        swept == [k \in Kinds |-> Hy_auto_end(lact[k], now, connected)]
    IN  [la |-> la2,
         lact |-> [k \in Kinds |-> swept[k].tbl],
         p |-> [t \in Tables |-> IF t \in Kinds /\ swept[t].hit THEN TRUE ELSE p2[t]]]

(* ======================= the kiosk with HybridDatabase ================= *)
Ran(op, phases) == [op |-> op, phases |-> phases]

EmptyActivity == [k \in Kinds |-> {}]

\* no activity record of this student carries this start instant yet: two
\* calls of datetime.now() never give the same microsecond
FreshInstant(k, identifier) ==
    /\ \A r \in lAct[k] : ~(r.uid = identifier /\ r.start.t = clock)
    /\ \A d \in rAct[k] : ~(d.uid = identifier /\ d.start.t = clock)

\* the distinct activity records, by (kind, student, start), of both ledgers
ActivityKeys ==
    UNION { { << k, r.uid, r.start.t >> : r \in lAct[k] }
              \cup { << k, d.uid, d.start.t >> : d \in rAct[k] } : k \in Kinds }

RoomFor(k, identifier) ==
    Cardinality(ActivityKeys \cup { << k, identifier, clock >> }) <= MaxRec

\* room for one more record in the world of the online-first kiosk
OFRoomForAttendance ==
    Cardinality(lAtt) + Cardinality(rAtt) < MaxOFRec

OFRoomFor(k, identifier) ==
    Cardinality(ActivityKeys \cup { << k, identifier, clock >> }) <= MaxOFRec

\* HybridDatabase.__init__: the remote is connected and the students pulled
Init ==
    /\ clock = Periods[1].start
    /\ rStudents = Enrolled
    /\ rAtt = {}
    /\ rAct = EmptyActivity
    /\ lStudents = sync_students_from_firestore({}, Enrolled)
    /\ lAtt = {}
    /\ lAct = EmptyActivity
    /\ pending = NoPending
    /\ firebase_db = TRUE
    /\ local_db = TRUE
    /\ mode = "hybrid"
    /\ is_online = TRUE
    /\ net = TRUE
    /\ last = Ran("init", << >>)
    /\ ThreadsIdle

HybridCheckIn(scan) ==
    \E r \in { Hy_check_in(lStudents, lAtt, pending, scan[1], scan[2], clock) } :
        /\ Cardinality(r.att) <= MaxRec
        /\ lAtt' = r.att
        /\ pending' = r.p
        /\ last' = Ran("call", << >>)
        /\ UNCHANGED << clock, lStudents, lAct, rStudents, rAtt, rAct, modeVars, threadVars >>

HybridStartActivity(k, scan) ==
    \E identifier \in { get_identifier(scan[1], scan[2]) } :
    \E r \in { Hy_start_activity(k, lStudents, lAtt, lAct[k], pending,
                                 scan[1], scan[2], clock) } :
        /\ FreshInstant(k, identifier)
        /\ Cardinality(r.att) <= MaxRec
        /\ (r.tbl # lAct[k] => RoomFor(k, identifier))
        /\ lAtt' = r.att
        /\ lAct' = [lAct EXCEPT ![k] = r.tbl]
        /\ pending' = r.p
        /\ last' = Ran("call", << >>)
        /\ UNCHANGED << clock, lStudents, rStudents, rAtt, rAct, modeVars, threadVars >>

HybridEndActivity(k, scan) ==
    \E r \in { Hy_end_activity(k, lAct[k], pending,
                               get_identifier(scan[1], scan[2]), clock) } :
        /\ lAct' = [lAct EXCEPT ![k] = r.tbl]
        /\ pending' = r.p
        /\ last' = Ran("call", << >>)
        /\ UNCHANGED << clock, lStudents, lAtt, rStudents, rAtt, rAct, modeVars, threadVars >>

\* another writer of the shared remote ledger: a hall-pass kiosk in online mode
RemoteKinds == {"bathroom"}

RemoteStartActivity(k, scan) ==
    \E identifier \in { get_identifier(scan[1], scan[2]) } :
    \E pick \in IF Fb_open_of(rAct[k], identifier) = {}
                THEN {NULL} ELSE Fb_open_of(rAct[k], identifier) :
    \E r \in { Fb_start_activity(k, rStudents, rAtt, rAct[k], identifier,
                                 clock, pick) } :
        /\ FreshInstant(k, identifier)
        /\ Cardinality(r.att) <= MaxRec
        /\ (Cardinality(r.coll) > Cardinality(rAct[k]) => RoomFor(k, identifier))
        /\ rAtt' = r.att
        /\ rAct' = [rAct EXCEPT ![k] = r.coll]
        /\ last' = Ran("call", << >>)
        /\ UNCHANGED << clock, lStudents, lAtt, lAct, rStudents, pending,
                        modeVars, threadVars >>

RemoteEndActivity(k, scan) ==
    \E identifier \in { get_identifier(scan[1], scan[2]) } :
    \E pick \in IF Fb_open_of(rAct[k], identifier) = {}
                THEN {NULL} ELSE Fb_open_of(rAct[k], identifier) :
    \E r \in { Fb_end_activity(rAct[k], identifier, clock, pick) } :
        /\ rAct' = [rAct EXCEPT ![k] = r.coll]
        /\ last' = Ran("call", << >>)
        /\ UNCHANGED << clock, lStudents, lAtt, lAct, rStudents, rAtt,
                        pending, modeVars, threadVars >>

\* the answers of the remote to a push: the table whose first call fails and
\* the number of rate-limit errors in a row (0 = none)
Faults == 0..MaxFaults

\* a fault only shows at a table the push makes a call for
FaultCase(failAt, n) ==
    IF n = 0 THEN failAt = PushOrder[1] ELSE pending[failAt]

SyncFromFirestore ==
    \E r \in { sync_from_firestore(lStudents, lAtt, lAct, rStudents, rAtt, rAct,
                                 clock, firebase_db) } :
        /\ lStudents' = r.ls
        /\ lAtt' = r.la
        /\ lAct' = r.lact
        /\ last' = Ran("sync_from_firestore", << "pull" >>)
        /\ UNCHANGED << clock, rStudents, rAtt, rAct, pending, modeVars, threadVars >>

SyncToFirestore(failAt, n) ==
    /\ FaultCase(failAt, n)
    /\ \E r \in { sync_to_firestore(lStudents, lAtt, lAct, rStudents, rAtt, rAct,
                               pending, clock, firebase_db, failAt, n) } :
        /\ rStudents' = r.rs
        /\ rAtt' = r.ra
        /\ rAct' = r.ract
        /\ pending' = r.p
        /\ last' = Ran("sync_to_firestore", << "push" >>)
        /\ UNCHANGED << clock, lStudents, lAtt, lAct, modeVars, threadVars >>

ForceSync(failAt, n) ==
    /\ FaultCase(failAt, n)
    /\ \E r \in { force_sync(lStudents, lAtt, lAct, rStudents, rAtt, rAct,
                        pending, clock, firebase_db, failAt, n) } :
        /\ lStudents' = r.ls
        /\ lAtt' = r.la
        /\ lAct' = r.lact
        /\ rStudents' = r.rs
        /\ rAtt' = r.ra
        /\ rAct' = r.ract
        /\ pending' = r.p
        /\ last' = Ran("force_sync", r.phases)
        /\ UNCHANGED << clock, modeVars, threadVars >>

SyncWorker(failAt, n) ==
    /\ FaultCase(failAt, n)
    /\ \E r \in { sync_worker(lStudents, lAtt, lAct, rStudents, rAtt, rAct,
                         pending, clock, firebase_db, failAt, n) } :
        /\ lStudents' = r.ls
        /\ lAtt' = r.la
        /\ lAct' = r.lact
        /\ rStudents' = r.rs
        /\ rAtt' = r.ra
        /\ rAct' = r.ract
        /\ pending' = r.p
        /\ last' = Ran("sync_worker", r.phases)
        /\ UNCHANGED << clock, modeVars, threadVars >>

\* the boundary sweep the GUI timer runs
AutoCheckout ==
    \E r \in { Hy_auto_checkout_students(lAtt, lAct, pending, clock, firebase_db) } :
        /\ lAtt' = r.la
        /\ lAct' = r.lact
        /\ pending' = r.p
        /\ last' = Ran("auto_checkout_students", << >>)
        /\ UNCHANGED << clock, lStudents, rStudents, rAtt, rAct, modeVars, threadVars >>

Tick ==
    /\ clock < MaxClock
    /\ clock' = clock + 1
    /\ UNCHANGED << storeVars, pending, modeVars, threadVars, last >>

Next ==
    \/ \E scan \in Scans : HybridCheckIn(scan)
    \/ \E k \in Kinds, scan \in Scans : HybridStartActivity(k, scan)
    \/ \E k \in Kinds, scan \in Scans : HybridEndActivity(k, scan)
    \/ \E k \in RemoteKinds, scan \in Scans : RemoteStartActivity(k, scan)
    \/ \E k \in Kinds, scan \in Scans : RemoteEndActivity(k, scan)
    \/ SyncFromFirestore
    \/ \E failAt \in Tables, n \in Faults : SyncToFirestore(failAt, n)
    \/ \E failAt \in Tables, n \in Faults : ForceSync(failAt, n)
    \/ \E failAt \in Tables, n \in Faults : SyncWorker(failAt, n)
    \/ AutoCheckout
    \/ Tick

Spec == Init /\ [][Next]_vars

(* =============== the kiosk with OnlineFirstDatabase ==================== *)
\* the activity kinds OnlineFirstDatabase has methods for
OFKinds == {"bathroom", "nurse"}

\* OnlineFirstDatabase._to_iso on a start or attendance field: '' when falsy
OF_to_iso(ts) == IF Truthy(ts) THEN Iso(ts.t) ELSE EMPTY

\* ... on break_end / visit_end: None when falsy
OF_to_iso_end(ts) == IF Truthy(ts) THEN Iso(ts.t) ELSE NULL

OF_attendance_docs(ls, la) ==
    { [doc |-> <<"key", a.uid, a.date>>, uid |-> a.uid, date |-> a.date,
       cin |-> OF_to_iso(a.cin), cout |-> OF_to_iso(a.cout),
       sched |-> OF_to_iso(a.sched)] : a \in { x \in la : Joined(ls, x.uid) } }

OF_activity_docs(ls, tbl) ==
    { [doc |-> <<"key", r.uid, r.start.t>>, uid |-> r.uid,
       start |-> OF_to_iso(r.start), end |-> OF_to_iso_end(r.end),
       dur |-> r.dur] : r \in { x \in tbl : Joined(ls, x.uid) } }

\* the order in which _sync_local_to_firebase takes the tables
OFPushOrder == << "attendance", "bathroom", "nurse" >>

OFPushIndex(table) == CHOOSE i \in 1..Len(OFPushOrder) : OFPushOrder[i] = table

\* OnlineFirstDatabase._sync_local_to_firebase; the first remote call for
\* table failAt raises ("none": no call raises).  [ok, ra, ract]
sync_local_to_firebase(ls, la, lact, ra, ract, failAt) ==
    LET docs(t) == IF t = "attendance" THEN OF_attendance_docs(ls, la)
                   ELSE OF_activity_docs(ls, lact[t])
        failing == failAt # "none" /\ docs(failAt) # {}
        done(t) == ~failing \/ OFPushIndex(t) < OFPushIndex(failAt)
    IN  [ok |-> ~failing,
         ra |-> IF done("attendance") THEN SetDocs(ra, docs("attendance")) ELSE ra,
         ract |-> [k \in Kinds |->
                     IF k \in OFKinds /\ done(k)
                     THEN SetDocs(ract[k], docs(k)) ELSE ract[k]]]

\* OnlineFirstDatabase._clear_local_database: [la, lact]
clear_local_database(la, lact) ==
    [la |-> {}, lact |-> [k \in Kinds |-> IF k \in OFKinds THEN {} ELSE lact[k]]]

\* a transition that stays in online mode and clears the local store also
\* when the push of the buffered records failed
transition_to_online_ignores_failure(fb, ldb, ls, la, lact, ra, ract, initOk, failAt) ==
    LET has_data == la # {} \/ \E k \in OFKinds : lact[k] # {}
        pushed == sync_local_to_firebase(ls, la, lact, ra, ract, failAt)
        cleared == clear_local_database(la, lact)
    IN  IF ~fb /\ ~initOk
        THEN [fb |-> FALSE, mode |-> "offline", la |-> la, lact |-> lact,
              ra |-> ra, ract |-> ract]
        ELSE IF ~ldb \/ ~has_data
        THEN [fb |-> TRUE, mode |-> "online", la |-> la, lact |-> lact,
              ra |-> ra, ract |-> ract]
        ELSE [fb |-> TRUE, mode |-> "online", la |-> cleared.la,
              lact |-> cleared.lact, ra |-> pushed.ra, ract |-> pushed.ract]

\* OnlineFirstDatabase._transition_to_online; initOk = the remote handle can
\* be set up within the timeout.  [fb, mode, la, lact, ra, ract]
transition_to_online(fb, ldb, ls, la, lact, ra, ract, initOk, failAt) ==
    LET has_data == la # {} \/ \E k \in OFKinds : lact[k] # {}
        pushed == sync_local_to_firebase(ls, la, lact, ra, ract, failAt)
        cleared == clear_local_database(la, lact)
    IN  IF ~fb /\ ~initOk
        THEN [fb |-> FALSE, mode |-> "offline", la |-> la, lact |-> lact,
              ra |-> ra, ract |-> ract]
        ELSE IF ~ldb \/ ~has_data
        THEN [fb |-> TRUE, mode |-> "online", la |-> la, lact |-> lact,
              ra |-> ra, ract |-> ract]
        ELSE IF pushed.ok
        THEN [fb |-> TRUE, mode |-> "online", la |-> cleared.la,
              lact |-> cleared.lact, ra |-> pushed.ra, ract |-> pushed.ract]
        ELSE [fb |-> TRUE, mode |-> "offline", la |-> la, lact |-> lact,
              ra |-> pushed.ra, ract |-> pushed.ract]

\* OnlineFirstDatabase.init_local_db: the students table of the local store;
\* _sync_students_to_local reads the remote collection inside a try, and
\* leaves the table as it was when the read raises (synced = FALSE)
init_local_db(fb, ldb, ls, rs, synced) ==
    IF ~ldb /\ fb /\ synced THEN sync_students_from_firestore(ls, rs) ELSE ls

\* the store a proxy method delegates to
Route ==
    IF mode = "online" /\ firebase_db THEN "firebase"
    ELSE IF mode = "offline" /\ local_db THEN "local"
    ELSE "none"

\* OnlineFirstDatabase.__init__ / init_databases: online with the remote handle
\* set, or offline on the local store an earlier run left its students in
InitOnlineFirst ==
    /\ clock = Periods[1].start
    /\ rStudents = Enrolled
    /\ rAtt = {}
    /\ rAct = EmptyActivity
    /\ lAtt = {}
    /\ lAct = EmptyActivity
    /\ pending = NoPending
    /\ net \in BOOLEAN
    /\ \/ /\ net
          /\ mode = "online"
          /\ is_online = TRUE
          /\ firebase_db = TRUE
          /\ local_db = FALSE
          /\ lStudents = {}
       \/ /\ mode = "offline"
          /\ is_online = FALSE
          /\ firebase_db = FALSE
          /\ local_db = TRUE
          /\ lStudents = sync_students_from_firestore({}, Enrolled)
    /\ last = Ran("init", << >>)
    /\ ThreadsIdle

\* OnlineFirstDatabase.is_on_break: the store the mode selects is asked;
\* FirebaseDatabase.is_on_break answers False when the query raises
OF_is_on_break(identifier) ==
    IF Route = "firebase" THEN net /\ Fb_open_of(rAct["bathroom"], identifier) # {}
    ELSE IF Route = "local" THEN L_open_of(lAct["bathroom"], identifier) # {}
    ELSE FALSE

\* OnlineFirstDatabase.check_in
OFCheckIn(scan) ==
    /\ \/ /\ Route = "firebase" /\ net
          /\ \E r \in { Fb_check_in(rStudents, rAtt, scan[1], scan[2], clock) } :
                /\ (r.att # rAtt => OFRoomForAttendance)
                /\ rAtt' = r.att
          /\ UNCHANGED lAtt
       \/ /\ Route = "local"
          /\ \E r \in { L_check_in(lStudents, lAtt, scan[1], scan[2], clock) } :
                /\ (r.att # lAtt => OFRoomForAttendance)
                /\ lAtt' = r.att
          /\ UNCHANGED rAtt
       \/ /\ Route = "none" \/ (Route = "firebase" /\ ~net)
          /\ UNCHANGED << lAtt, rAtt >>
    /\ UNCHANGED << clock, lStudents, lAct, rStudents, rAct, pending, modeVars, threadVars, last >>

\* OnlineFirstDatabase.start_bathroom_break / start_nurse_visit
OFStartActivity(k, scan) ==
    \E identifier \in { get_identifier(scan[1], scan[2]) } :
    /\ FreshInstant(k, identifier)
    /\ \/ /\ Route = "firebase" /\ net
          /\ \E pick \in IF Fb_open_of(rAct[k], identifier) = {}
                          THEN {NULL} ELSE Fb_open_of(rAct[k], identifier) :
             \E r \in { Fb_start_activity(k, rStudents, rAtt, rAct[k],
                                          identifier, clock, pick) } :
                /\ (r.att # rAtt => OFRoomForAttendance)
                /\ (Cardinality(r.coll) > Cardinality(rAct[k])
                      => OFRoomFor(k, identifier))
                /\ rAtt' = r.att
                /\ rAct' = [rAct EXCEPT ![k] = r.coll]
          /\ UNCHANGED << lAtt, lAct >>
       \/ /\ Route = "local"
          /\ \E r \in { L_start_activity(k, lStudents, lAtt, lAct[k],
                                         identifier, clock) } :
                /\ (r.att # lAtt => OFRoomForAttendance)
                /\ (r.tbl # lAct[k] => OFRoomFor(k, identifier))
                /\ lAtt' = r.att
                /\ lAct' = [lAct EXCEPT ![k] = r.tbl]
          /\ UNCHANGED << rAtt, rAct >>
       \/ /\ Route = "none" \/ (Route = "firebase" /\ ~net)
          /\ UNCHANGED << lAtt, lAct, rAtt, rAct >>
    /\ UNCHANGED << clock, lStudents, rStudents, pending, modeVars, threadVars, last >>

\* OnlineFirstDatabase.end_bathroom_break / end_nurse_visit
OFEndActivity(k, scan) ==
    \E identifier \in { get_identifier(scan[1], scan[2]) } :
    /\ \/ /\ Route = "firebase" /\ net
          /\ \E pick \in IF Fb_open_of(rAct[k], identifier) = {}
                          THEN {NULL} ELSE Fb_open_of(rAct[k], identifier) :
                rAct' = [rAct EXCEPT
                           ![k] = Fb_end_activity(rAct[k], identifier, clock, pick).coll]
          /\ UNCHANGED lAct
       \/ /\ Route = "local"
          /\ lAct' = [lAct EXCEPT ![k] = L_end_activity(lAct[k], identifier, clock).tbl]
          /\ UNCHANGED rAct
       \/ /\ Route = "none" \/ (Route = "firebase" /\ ~net)
          /\ UNCHANGED << lAct, rAct >>
    /\ UNCHANGED << clock, lStudents, lAtt, rStudents, rAtt, pending, modeVars, threadVars, last >>

\* OnlineFirstDatabase.auto_checkout_students
OFAutoCheckout ==
    /\ \/ /\ Route = "firebase" /\ net
          /\ rAtt' = Fb_auto_checkout(rAtt, clock)
          /\ rAct' = [k \in Kinds |-> Fb_auto_end(rAct[k], clock)]
          /\ UNCHANGED lAtt
       \/ /\ Route = "local"
          /\ lAtt' = L_auto_checkout(lAtt, clock)
          /\ UNCHANGED << rAtt, rAct >>
       \/ /\ Route = "none" \/ (Route = "firebase" /\ ~net)
          /\ UNCHANGED << lAtt, rAtt, rAct >>
    /\ UNCHANGED << clock, lStudents, lAct, rStudents, pending, modeVars, threadVars, last >>

\* the network path comes or goes
NetChange ==
    /\ net' = ~net
    /\ UNCHANGED << clock, threadVars, storeVars, pending, firebase_db, local_db, mode,
                    is_online, last >>

\* what can go wrong in a transition to online: the remote handle cannot be
\* set up (initOk = FALSE), the first remote call for table failAt raises
OFFailAt == {"none", "attendance", "bathroom", "nurse"}

\* the fault inputs matter only when the handle is missing / rows are buffered
OFFaultCase(initOk, failAt) ==
    /\ (firebase_db => initOk)
    /\ (failAt # "none" =>
          IF failAt = "attendance" THEN lAtt # {} ELSE lAct[failAt] # {})

\* the effect of _transition_to_online on the state
TransitionToOnline(initOk, failAt) ==
    \E r \in { transition_to_online(firebase_db, local_db, lStudents, lAtt, lAct,
                                    rAtt, rAct, initOk, failAt) } :
        /\ firebase_db' = r.fb
        /\ mode' = r.mode
        /\ lAtt' = r.la
        /\ lAct' = r.lact
        /\ rAtt' = r.ra
        /\ rAct' = r.ract
        /\ UNCHANGED << lStudents, local_db >>

\* one round of OnlineFirstDatabase._connectivity_worker
ConnectivityCheck(initOk, failAt) ==
    /\ \/ /\ ~is_online /\ net
          /\ OFFaultCase(initOk, failAt)
          /\ is_online' = TRUE
          /\ TransitionToOnline(initOk, failAt)
       \/ /\ is_online /\ ~net
          /\ initOk /\ failAt = "none"
          /\ is_online' = FALSE
          /\ mode' = "offline"
          /\ \E synced \in BOOLEAN :
                /\ (synced \/ (~local_db /\ firebase_db))
                /\ lStudents' = init_local_db(firebase_db, local_db, lStudents,
                                              rStudents, synced)
          /\ local_db' = TRUE
          /\ UNCHANGED << firebase_db, lAtt, lAct, rAtt, rAct >>
       \/ /\ is_online = net
          /\ initOk /\ failAt = "none"
          /\ UNCHANGED << is_online, mode, firebase_db, local_db, lStudents,
                          lAtt, lAct, rAtt, rAct >>
    /\ UNCHANGED << clock, threadVars, rStudents, pending, net, last >>

\* OnlineFirstDatabase.force_sync
OFForceSync(initOk, failAt) ==
    /\ \/ /\ mode = "offline" /\ local_db /\ net
          /\ OFFaultCase(initOk, failAt)
          /\ TransitionToOnline(initOk, failAt)
       \/ /\ ~(mode = "offline" /\ local_db /\ net)
          /\ initOk /\ failAt = "none"
          /\ UNCHANGED << mode, firebase_db, local_db, lStudents,
                          lAtt, lAct, rAtt, rAct >>
    /\ UNCHANGED << clock, threadVars, rStudents, pending, net, is_online, last >>

\* the activity calls made at the online-first kiosk
OFCallKinds == {"bathroom"}

NextOnlineFirst ==
    \/ \E scan \in Scans : OFCheckIn(scan)
    \/ \E k \in OFCallKinds, scan \in Scans : OFStartActivity(k, scan)
    \/ \E k \in OFCallKinds, scan \in Scans : OFEndActivity(k, scan)
    \/ OFAutoCheckout
    \/ NetChange
    \/ \E initOk \in BOOLEAN, failAt \in OFFailAt : ConnectivityCheck(initOk, failAt)
    \/ \E initOk \in BOOLEAN, failAt \in OFFailAt : OFForceSync(initOk, failAt)
    \/ Tick

SpecOnlineFirst == InitOnlineFirst /\ [][NextOnlineFirst]_vars

(* ============ the kiosk with hybrid_db.HybridDatabase (sheets) ========= *)
\* The remote is a spreadsheet: rStudents holds the rows of worksheet Students
\* [nfc_uid, student_id], rAtt the rows of worksheet Attendance [uid, date,
\* cin, cout, sched]; the sequence id of a row is left out, rows are told
\* apart by their other cells; rAct["bathroom"] holds the rows of worksheet
\* Bathroom_Breaks [uid, start, end, dur].  No nurse visit is made at this
\* kiosk, so the nurse table and worksheet hold no rows and the phases over
\* them leave the state alone.
SheetTables == {"students", "attendance", "bathroom"}

\* the order in which sync_to_google_sheets takes the tables
SheetPushOrder == << "students", "attendance", "bathroom" >>

SheetPushIndex(table) ==
    CHOOSE i \in 1..Len(SheetPushOrder) : SheetPushOrder[i] = table

\* the records of today one run of _sync_breaks_to_sheets looks at
BreaksPerSync == 10

SheetStudents ==
    { [nfc_uid |-> e.nfc_uid, student_id |-> e.student_id] : e \in Enrolled }

\* HybridDatabase._sync_students_from_sheets: INSERT OR REPLACE by id
sync_students_from_sheets(ls, rows) ==
    LET new == { [id |-> IF r.nfc_uid # "" THEN r.nfc_uid ELSE r.student_id,
                  student_id |-> r.student_id] :
                    r \in { x \in rows : x.student_id # "" } }
    IN  { l \in ls : \A r \in new : r.id # l.id } \cup new

RECURSIVE SheetAttendanceFold(_, _)
SheetAttendanceFold(la, rows) ==
    IF rows = {} THEN la
    ELSE LET r == CHOOSE x \in rows : TRUE
         IN  SheetAttendanceFold(
                 { a \in la : ~(a.uid = r.uid /\ a.date = r.date) } \cup {r},
                 rows \ {r})

\* HybridDatabase._sync_attendance_from_sheets: INSERT OR REPLACE of today's rows
sync_attendance_from_sheets(la, rows, now) ==
    SheetAttendanceFold(la, { r \in rows : r.date = DateOf(now) })

\* HybridDatabase.sync_from_google_sheets: [ls, la]
sync_from_google_sheets(ls, la, rs, ra, now, connected) ==
    IF ~connected THEN [ls |-> ls, la |-> la]
    ELSE [ls |-> sync_students_from_sheets(ls, rs),
          la |-> sync_attendance_from_sheets(la, ra, now)]

\* HybridDatabase._sync_students_to_sheets: the worksheet is cleared and rewritten
sync_students_to_sheets(ls) ==
    { [nfc_uid |-> IF s.id # s.student_id THEN s.id ELSE "",
       student_id |-> s.student_id] : s \in ls }

\* the rows _regular_sync_attendance appends: today's local records under the
\* school id of the joined student, but for those whose (student, date,
\* check-in) the worksheet holds
attendance_batch(ls, la, ra, now) ==
    LET joined == { pair \in la \X ls :
                      /\ pair[1].date = DateOf(now)
                      /\ (pair[1].uid = pair[2].id
                            \/ pair[1].uid = pair[2].student_id) }
        records == { [uid |-> pair[2].student_id, date |-> pair[1].date,
                      cin |-> pair[1].cin,
                      cout |-> IF Truthy(pair[1].cout) THEN pair[1].cout ELSE EMPTY,
                      sched |-> IF Truthy(pair[1].sched) THEN pair[1].sched
                                ELSE EMPTY] : pair \in joined }
    IN  { r \in records :
            \A e \in ra : ~(e.uid = r.uid /\ e.date = r.date /\ e.cin = r.cin) }

\* the rows the query of _sync_breaks_to_sheets gives: today's breaks under
\* the school id of the joined student
breaks_of_today(ls, tbl, now) ==
    LET joined == { pair \in tbl \X ls :
                      /\ Truthy(pair[1].start)
                      /\ DateOf(pair[1].start.t) = DateOf(now)
                      /\ (pair[1].uid = pair[2].id
                            \/ pair[1].uid = pair[2].student_id) }
    IN  { [uid |-> pair[2].student_id, start |-> pair[1].start,
           end |-> pair[1].end, dur |-> pair[1].dur] : pair \in joined }

\* breaks[:10]: the query has no ORDER BY, so any BreaksPerSync of its rows
\* may come first
RECURSIVE LeaveOut(_, _)
LeaveOut(rows, k) ==
    IF k <= 0 THEN { rows }
    ELSE UNION { LeaveOut(rows \ {x}, k - 1) : x \in rows }

FirstBreaks(rows) == LeaveOut(rows, Cardinality(rows) - BreaksPerSync)

\* HybridDatabase._sync_breaks_to_sheets: of the rows in first, those whose
\* (student, start) the worksheet does not hold are appended; break_end or '',
\* duration or ''
breaks_batch(first, sheet) ==
    { [uid |-> r.uid, start |-> r.start,
       end |-> IF Truthy(r.end) THEN r.end ELSE EMPTY,
       dur |-> IF r.dur = 0 THEN DurNull ELSE r.dur] :
        r \in { x \in first :
                  \A e \in sheet : ~(e.uid = x.uid /\ e.start = x.start) } }

\* HybridDatabase.sync_to_google_sheets.  The remote gives the first write for
\* table failAt the answers listed, one per call; the append of the attendance
\* rows goes through _retry_with_backoff, the rewrite of the students
\* worksheet and the append of the break rows do not; first is the outcome
\* of breaks[:10].  [ok, rs, ra, ract, p]
sync_to_google_sheets(ls, la, lact, rs, ra, ract, p, now, connected, failAt, answers, first) ==
    LET batch == attendance_batch(ls, la, ra, now)
        new_breaks == breaks_batch(first, ract["bathroom"])
        students_fail == /\ p["students"] /\ failAt = "students"
                         /\ Answer(answers, 1) # "ok"
        attendance_fail == /\ p["attendance"] /\ failAt = "attendance"
                           /\ batch # {}
                           /\ ~retry_attempts(answers, 0, MaxRetries, 0).ok
        breaks_fail == /\ p["bathroom"] /\ failAt = "bathroom"
                       /\ new_breaks # {}
                       /\ Answer(answers, 1) # "ok"
        failing == students_fail \/ attendance_fail \/ breaks_fail
        done(t) == p[t] /\ (~failing \/ SheetPushIndex(t) < SheetPushIndex(failAt))
    IN  IF ~connected \/ p = NoPending
        THEN [ok |-> TRUE, rs |-> rs, ra |-> ra, ract |-> ract, p |-> p]
        ELSE [ok |-> ~failing,
              rs |-> IF done("students") THEN sync_students_to_sheets(ls) ELSE rs,
              ra |-> IF done("attendance") THEN ra \cup batch ELSE ra,
              ract |-> IF done("bathroom")
                       THEN [ract EXCEPT !["bathroom"] = @ \cup new_breaks]
                       ELSE ract,
              p |-> IF failing THEN p ELSE NoPending]

\* HybridDatabase.force_sync: sync_from_google_sheets, then sync_to_google_sheets
Sheets_force_sync(ls, la, lact, rs, ra, ract, p, now, connected, failAt, answers, first) ==
    LET pull == sync_from_google_sheets(ls, la, rs, ra, now, connected)
        push == sync_to_google_sheets(pull.ls, pull.la, lact, rs, ra, ract, p,
                                      now, connected, failAt, answers, first)
    IN  [ok |-> push.ok, phases |-> << "pull", "push" >>,
         ls |-> pull.ls, la |-> pull.la, rs |-> push.rs, ra |-> push.ra,
         ract |-> push.ract, p |-> push.p]

\* HybridDatabase.__init__ with the spreadsheet reachable
InitSheets ==
    /\ clock = Periods[1].start
    /\ rStudents = SheetStudents
    /\ rAtt = {}
    /\ rAct = EmptyActivity
    /\ lStudents = sync_students_from_sheets({}, SheetStudents)
    /\ lAtt = {}
    /\ lAct = EmptyActivity
    /\ pending = NoPending
    /\ firebase_db = TRUE
    /\ local_db = TRUE
    /\ mode = "hybrid"
    /\ is_online = TRUE
    /\ net = TRUE
    /\ last = Ran("init", << >>)
    /\ ThreadsIdle

\* HybridDatabase.check_in
SheetsCheckIn(scan) ==
    \E r \in { Hy_check_in(lStudents, lAtt, pending, scan[1], scan[2], clock) } :
        /\ Cardinality(r.att) <= MaxOFRec
        /\ lAtt' = r.att
        /\ pending' = r.p
        /\ last' = Ran("call", << >>)
        /\ UNCHANGED << clock, lStudents, lAct, rStudents, rAtt, rAct, modeVars, threadVars >>

\* HybridDatabase.auto_checkout_students
SheetsAutoCheckout ==
    \E la \in { L_auto_checkout(lAtt, clock) } :
        /\ lAtt' = la
        /\ pending' = IF \E a \in la : a.date = DateOf(clock) /\ a.cout # NULL
                      THEN track_change(pending, "attendance") ELSE pending
        /\ last' = Ran("auto_checkout_students", << >>)
        /\ UNCHANGED << clock, lStudents, lAct, rStudents, rAtt, rAct, modeVars, threadVars >>

\* HybridDatabase.force_sync_from_sheets
SheetsSyncFrom ==
    \E r \in { sync_from_google_sheets(lStudents, lAtt, rStudents, rAtt, clock,
                                       firebase_db) } :
        /\ lStudents' = r.ls
        /\ lAtt' = r.la
        /\ last' = Ran("sync_from_google_sheets", << "pull" >>)
        /\ UNCHANGED << clock, lAct, rStudents, rAtt, rAct, pending, modeVars, threadVars >>

\* what the spreadsheet answers a write with: up to MaxFaults rate-limit
\* errors in a row, then ok or an error of another kind
SheetAnswers ==
    { Answers(n, final) : n \in Faults, final \in {"ok"} \cup OtherMessages }

\* a fault only shows at a table the push writes
SheetsFaultCase(failAt, answers) ==
    IF answers[1] = "ok" THEN failAt = SheetPushOrder[1] ELSE pending[failAt]

\* a push and the answers it got
RanPush(op, phases, failAt, answers) ==
    [op |-> op, phases |-> phases, failAt |-> failAt, answers |-> answers]

\* HybridDatabase.force_sync_to_sheets
SheetsSyncTo(failAt, answers) ==
    /\ SheetsFaultCase(failAt, answers)
    /\ \E first \in FirstBreaks(breaks_of_today(lStudents, lAct["bathroom"], clock)) :
       \E r \in { sync_to_google_sheets(lStudents, lAtt, lAct, rStudents, rAtt,
                                        rAct, pending, clock, firebase_db,
                                        failAt, answers, first) } :
        /\ rStudents' = r.rs
        /\ rAtt' = r.ra
        /\ rAct' = r.ract
        /\ pending' = r.p
        /\ last' = RanPush("sync_to_google_sheets", << "push" >>, failAt, answers)
        /\ UNCHANGED << clock, lStudents, lAtt, lAct, modeVars, threadVars >>

\* HybridDatabase.force_sync
SheetsForceSync(failAt, answers) ==
    /\ SheetsFaultCase(failAt, answers)
    /\ \E first \in FirstBreaks(breaks_of_today(lStudents, lAct["bathroom"], clock)) :
       \E r \in { Sheets_force_sync(lStudents, lAtt, lAct, rStudents, rAtt, rAct,
                                    pending, clock, firebase_db, failAt,
                                    answers, first) } :
        /\ lStudents' = r.ls
        /\ lAtt' = r.la
        /\ rStudents' = r.rs
        /\ rAtt' = r.ra
        /\ rAct' = r.ract
        /\ pending' = r.p
        /\ last' = RanPush("force_sync", r.phases, failAt, answers)
        /\ UNCHANGED << clock, lAct, modeVars, threadVars >>

NextSheets ==
    \/ \E scan \in Scans : SheetsCheckIn(scan)
    \/ SheetsAutoCheckout
    \/ SheetsSyncFrom
    \/ \E failAt \in SheetTables, answers \in SheetAnswers :
          SheetsSyncTo(failAt, answers)
    \/ \E failAt \in SheetTables, answers \in SheetAnswers :
          SheetsForceSync(failAt, answers)
    \/ Tick

SpecSheets == InitSheets /\ [][NextSheets]_vars

(* ======== the sheets kiosk as the hall-pass station of a class ========= *)
\* the students of the class take the hall pass one after the other, in the
\* order of the class list, and the kiosk pushes to the spreadsheet whenever
\* its timer or the operator says so; the spreadsheet answers every call
PassStudent(i) == "B" \o ToString(i)

PassStudents == { PassStudent(i) : i \in 1..MaxPasses }

\* HybridDatabase.__init__ with the spreadsheet reachable and the class enrolled
InitPasses ==
    /\ clock = Periods[1].start
    /\ rStudents = { [nfc_uid |-> "", student_id |-> sid] : sid \in PassStudents }
    /\ rAtt = {}
    /\ rAct = EmptyActivity
    /\ lStudents = sync_students_from_sheets({}, rStudents)
    /\ lAtt = {}
    /\ lAct = EmptyActivity
    /\ pending = NoPending
    /\ firebase_db = TRUE
    /\ local_db = TRUE
    /\ mode = "hybrid"
    /\ is_online = TRUE
    /\ net = TRUE
    /\ last = Ran("init", << >>)
    /\ ThreadsIdle

\* HybridDatabase.start_bathroom_break, for the next student of the list
PassStart(i) ==
    /\ Cardinality(lAct["bathroom"]) = i - 1
    /\ \E r \in { Hy_start_activity("bathroom", lStudents, lAtt, lAct["bathroom"],
                                     pending, "", PassStudent(i), clock) } :
        /\ lAtt' = r.att
        /\ lAct' = [lAct EXCEPT !["bathroom"] = r.tbl]
        /\ pending' = r.p
        /\ last' = Ran("call", << >>)
        /\ UNCHANGED << clock, lStudents, rStudents, rAtt, rAct, modeVars, threadVars >>

\* HybridDatabase.end_bathroom_break, for the student who holds the pass
PassEnd(i) ==
    /\ L_open_of(lAct["bathroom"], PassStudent(i)) # {}
    /\ \E r \in { Hy_end_activity("bathroom", lAct["bathroom"], pending,
                                 PassStudent(i), clock) } :
          /\ lAct' = [lAct EXCEPT !["bathroom"] = r.tbl]
          /\ pending' = r.p
          /\ last' = Ran("call", << >>)
          /\ UNCHANGED << clock, lStudents, lAtt, rStudents, rAtt, rAct, modeVars, threadVars >>

NextPasses ==
    \/ \E i \in 1..MaxPasses : PassStart(i)
    \/ \E i \in 1..MaxPasses : PassEnd(i)
    \/ SheetsSyncTo(SheetPushOrder[1], Answers(0, "ok"))

SpecSheetsPasses == InitPasses /\ [][NextPasses]_vars

(* ======= the online-first kiosk with its student administration ======== *)
\* the cards and school ids the operator can type or tap
Cards == {"N1", "N2"}
SchoolIds == {"S1", "S2", "S3"}

\* FirebaseDatabase.add_student: [ok, students]
Fb_add_student(students, nfc_uid, student_id) ==
    LET doc_id == IF nfc_uid # "" THEN nfc_uid ELSE student_id
        student_data == [doc |-> doc_id, nfc_uid |-> nfc_uid,
                         student_id |-> student_id]
    IN  IF nfc_uid # "" /\ \E s \in students : s.doc = nfc_uid
        THEN [ok |-> FALSE, students |-> students]
        ELSE IF \E s \in students : s.student_id = student_id
        THEN [ok |-> FALSE, students |-> students]
        ELSE [ok |-> TRUE,
              students |-> { s \in students : s.doc # doc_id } \cup {student_data}]

\* FirebaseDatabase.get_students_without_nfc_uid
Fb_get_students_without_nfc_uid(students) ==
    { s.student_id : s \in { x \in students : x.nfc_uid = "" } }

\* FirebaseDatabase.link_nfc_card_to_student: the document the query on
\* student_id hands back (pick) is deleted and document(nfc_uid) is set;
\* [ok, msg, students]
Fb_link_nfc_card_to_student(students, nfc_uid, student_id, pick) ==
    LET new_data == [doc |-> nfc_uid, nfc_uid |-> nfc_uid,
                     student_id |-> student_id]
        deleted == students \ {pick}
    IN  IF pick \notin students \/ pick.student_id # student_id
        THEN [ok |-> FALSE, msg |-> "Student not found", students |-> students]
        ELSE [ok |-> TRUE, msg |-> "Card linked",
              students |-> { s \in deleted : s.doc # nfc_uid } \cup {new_data}]

\* the documents a query on student_id can hand back first; NULL when none
LinkPicks(students, student_id) ==
    IF \E s \in students : s.student_id = student_id
    THEN { s \in students : s.student_id = student_id }
    ELSE {NULL}

\* NFCReaderGUI.handle_manual_id_entry: the (nfc_uid, student_id) it passes to
\* check_in for a school id typed on the keypad, << >> when no student has it;
\* the lookup goes to the store of the mode
handle_manual_id_entry(student_id) ==
    IF Route = "firebase" /\ net
    THEN IF \E s \in rStudents : s.student_id = student_id
         THEN LET s == CHOOSE x \in rStudents : x.student_id = student_id
              IN  IF s.nfc_uid # "" THEN << s.nfc_uid, "" >>
                  ELSE << "", student_id >>
         ELSE << >>
    ELSE IF Route = "local"
    THEN IF \E l \in lStudents : l.student_id = student_id
         THEN LET l == CHOOSE x \in lStudents : x.student_id = student_id
              IN  << l.id, "" >>
         ELSE << >>
    ELSE << >>

\* OnlineFirstDatabase.__init__ with the network up and the remote handle set
InitRegistry ==
    /\ clock = Periods[1].start
    /\ rStudents = Enrolled
    /\ rAtt = {}
    /\ rAct = EmptyActivity
    /\ lStudents = {}
    /\ lAtt = {}
    /\ lAct = EmptyActivity
    /\ pending = NoPending
    /\ net = TRUE
    /\ mode = "online"
    /\ is_online = TRUE
    /\ firebase_db = TRUE
    /\ local_db = FALSE
    /\ last = Ran("init", << >>)
    /\ ThreadsIdle

\* OnlineFirstDatabase.add_student: to the remote store whenever its handle
\* is set; a call that cannot reach the remote returns False
RegAddStudent(nfc_uid, student_id) ==
    /\ IF firebase_db /\ net
       THEN rStudents' = Fb_add_student(rStudents, nfc_uid, student_id).students
       ELSE UNCHANGED rStudents
    /\ UNCHANGED << clock, lStudents, lAtt, lAct, rAtt, rAct, pending, modeVars, threadVars,
                    last >>

\* OnlineFirstDatabase.link_nfc_card_to_student: to the remote store whenever
\* its handle is set
RegLinkCard(nfc_uid, student_id) ==
    /\ IF firebase_db /\ net
       THEN \E pick \in LinkPicks(rStudents, student_id) :
              rStudents' = Fb_link_nfc_card_to_student(rStudents, nfc_uid,
                                                       student_id, pick).students
       ELSE UNCHANGED rStudents
    /\ UNCHANGED << clock, lStudents, lAtt, lAct, rAtt, rAct, pending, modeVars, threadVars,
                    last >>

\* NFCReaderGUI.read_serial: a card is tapped at the idle screen
RegCardScan(uid) ==
    /\ uid # ""
    /\ OFCheckIn(<< uid, "" >>)

\* a school id is typed on the keypad
RegKeypad(student_id) ==
    /\ handle_manual_id_entry(student_id) # << >>
    /\ OFCheckIn(handle_manual_id_entry(student_id))

\* one ledger call of the kiosk
RegCall ==
    \/ \E nfc_uid \in Cards \cup {""}, student_id \in SchoolIds :
          RegAddStudent(nfc_uid, student_id)
    \/ \E nfc_uid \in Cards, student_id \in SchoolIds :
          RegLinkCard(nfc_uid, student_id)
    \/ \E uid \in Cards : RegCardScan(uid)
    \/ \E student_id \in SchoolIds : RegKeypad(student_id)

NextRegistry ==
    \/ \E nfc_uid \in Cards \cup {""}, student_id \in SchoolIds :
          RegAddStudent(nfc_uid, student_id)
    \/ \E nfc_uid \in Cards, student_id \in SchoolIds :
          RegLinkCard(nfc_uid, student_id)
    \/ \E uid \in Cards : RegCardScan(uid)
    \/ \E student_id \in SchoolIds : RegKeypad(student_id)
    \/ NetChange
    \/ \E initOk \in BOOLEAN, failAt \in OFFailAt : ConnectivityCheck(initOk, failAt)

SpecRegistry == InitRegistry /\ [][NextRegistry]_vars

(* ================== the period label under the clock =================== *)
\* a time of day in minutes; the schedule's bounds carry no seconds, so a
\* comparison of now with a bound depends on the minute of now only
Minute(h, m) == h * 60 + m

DayMinutes == Minute(24, 0)

\* NFCReaderGUI.SCHEDULE
SCHEDULE ==
    << [name |-> "Period 1", start |-> Minute(7, 25),  end |-> Minute(8, 8)],
       [name |-> "Period 2", start |-> Minute(8, 12),  end |-> Minute(9, 1)],
       [name |-> "Period 3", start |-> Minute(9, 5),   end |-> Minute(9, 48)],
       [name |-> "Period 4", start |-> Minute(9, 52),  end |-> Minute(10, 35)],
       [name |-> "Period 5", start |-> Minute(10, 39), end |-> Minute(11, 22)],
       [name |-> "Period 6", start |-> Minute(11, 26), end |-> Minute(12, 9)],
       [name |-> "Period 7", start |-> Minute(12, 13), end |-> Minute(12, 56)],
       [name |-> "Period 8", start |-> Minute(13, 0),  end |-> Minute(13, 43)],
       [name |-> "Period 9", start |-> Minute(13, 47), end |-> Minute(14, 30)] >>

\* the loop of _determine_current_period from index idx on; "" when it runs
\* to its end without a return
RECURSIVE period_loop_no_passing(_, _)
period_loop_no_passing(now, idx) ==
    IF idx > Len(SCHEDULE) THEN ""
    ELSE IF SCHEDULE[idx].start <= now /\ now < SCHEDULE[idx].end
    THEN SCHEDULE[idx].name
    ELSE period_loop_no_passing(now, idx + 1)

RECURSIVE period_loop(_, _)
period_loop(now, idx) ==
    IF idx > Len(SCHEDULE) THEN ""
    ELSE IF SCHEDULE[idx].start <= now /\ now < SCHEDULE[idx].end
    THEN SCHEDULE[idx].name
    ELSE IF /\ idx < Len(SCHEDULE)
            /\ SCHEDULE[idx].end <= now /\ now < SCHEDULE[idx + 1].start
    THEN "Passing"
    ELSE period_loop(now, idx + 1)

\* NFCReaderGUI._determine_current_period
determine_current_period(now) ==
    LET found == period_loop(now, 1)
    IN  IF found # "" THEN found
        ELSE IF now < SCHEDULE[1].start THEN "Before School"
        ELSE IF now >= SCHEDULE[Len(SCHEDULE)].end THEN "After School"
        ELSE ""

\* the kiosk window at some minute of the day, nothing in its ledgers
InitLabel ==
    /\ clock \in 0..(DayMinutes - 1)
    /\ rStudents = Enrolled
    /\ rAtt = {}
    /\ rAct = EmptyActivity
    /\ lStudents = {}
    /\ lAtt = {}
    /\ lAct = EmptyActivity
    /\ pending = NoPending
    /\ net = TRUE
    /\ mode = "online"
    /\ is_online = TRUE
    /\ firebase_db = TRUE
    /\ local_db = FALSE
    /\ last = Ran("init", << >>)
    /\ ThreadsIdle

\* NFCReaderGUI.update_period_label: the label drawn inside the clock
UpdatePeriodLabel ==
    /\ last' = [op |-> "update_period_label", at |-> clock,
                label |-> determine_current_period(clock)]
    /\ UNCHANGED << clock, storeVars, pending, modeVars, threadVars >>

NextLabel == UpdatePeriodLabel

SpecLabel == InitLabel /\ [][NextLabel]_vars

(* ============ the kiosk on FirebaseDatabase alone, over days =========== *)
\* FirebaseDatabase.__init__: connected, the students enrolled
InitSweep ==
    /\ clock = Periods[1].start
    /\ rStudents = Enrolled
    /\ rAtt = {}
    /\ rAct = EmptyActivity
    /\ lStudents = {}
    /\ lAtt = {}
    /\ lAct = EmptyActivity
    /\ pending = NoPending
    /\ net = TRUE
    /\ mode = "online"
    /\ is_online = TRUE
    /\ firebase_db = TRUE
    /\ local_db = FALSE
    /\ last = Ran("init", << >>)
    /\ ThreadsIdle

\* FirebaseDatabase.check_in
SweepCheckIn(scan) ==
    /\ rAtt' = Fb_check_in(rStudents, rAtt, scan[1], scan[2], clock).att
    /\ last' = Ran("call", << >>)
    /\ UNCHANGED << clock, lStudents, lAtt, lAct, rStudents, rAct, pending,
                    modeVars, threadVars >>

\* FirebaseDatabase.auto_checkout_students, run by the kiosk's timer; before =
\* the attendance collection the sweep found
SweepAutoCheckout ==
    /\ rAtt' = Fb_auto_checkout(rAtt, clock)
    /\ rAct' = [k \in Kinds |-> Fb_auto_end(rAct[k], clock)]
    /\ last' = [op |-> "auto_checkout_students", at |-> clock, before |-> rAtt]
    /\ UNCHANGED << clock, lStudents, lAtt, lAct, rStudents, pending, modeVars, threadVars >>

\* time passes, the kiosk running or switched off
SweepTick ==
    /\ clock < MaxSweepClock
    /\ clock' = clock + 1
    /\ last' = Ran("tick", << >>)
    /\ UNCHANGED << storeVars, pending, modeVars, threadVars >>

NextSweep ==
    \/ \E scan \in Scans : SweepCheckIn(scan)
    \/ SweepAutoCheckout
    \/ SweepTick

SpecSweep == InitSweep /\ [][NextSweep]_vars

(* ========= the hybrid kiosk as two threads: GUI and sync worker ======== *)
\* the GUI thread makes the ledger calls (and cleanup at exit); the thread
\* started by start_sync_thread runs _sync_worker
HybridThreads == [gui |-> "idle", sync |-> "sleep"]

\* the places where a thread is inside a read/write section of the local store
GuiStorePlaces == {"store"}
SyncStorePlaces == {"pull", "push"}

\* HybridDatabase.__init__ with the remote connected and the worker started
InitThreads ==
    /\ clock = Periods[1].start
    /\ rStudents = Enrolled
    /\ rAtt = {}
    /\ rAct = EmptyActivity
    /\ lStudents = sync_students_from_firestore({}, Enrolled)
    /\ lAtt = {}
    /\ lAct = EmptyActivity
    /\ pending = NoPending
    /\ firebase_db = TRUE
    /\ local_db = TRUE
    /\ mode = "hybrid"
    /\ is_online = TRUE
    /\ net = TRUE
    /\ last = Ran("init", << >>)
    /\ pc = HybridThreads
    /\ changes_lock = "free"
    /\ store_lock = "free"
    /\ sync_active = TRUE
    /\ check_active = TRUE
    /\ next_id = NoThreads

\* HybridDatabase.check_in is called: the GUI thread enters the local store
\* (StudentDatabase.check_in), taking the store's lock
GuiBegin ==
    /\ pc.gui = "idle"
    /\ store_lock = "free"
    /\ store_lock' = "gui"
    /\ pc' = [pc EXCEPT !.gui = "store"]
    /\ UNCHANGED << clock, storeVars, pending, modeVars, last, changes_lock,
                    sync_active, check_active, next_id >>

\* super().check_in(...) returns; on success _track_change comes next
GuiStore(scan) ==
    /\ pc.gui = "store"
    /\ \E r \in { L_check_in(lStudents, lAtt, scan[1], scan[2], clock) } :
          /\ lAtt' = r.att
          /\ pc' = [pc EXCEPT !.gui = IF r.ok THEN "track" ELSE "idle"]
    /\ store_lock' = "free"
    /\ last' = Ran("call", << >>)
    /\ UNCHANGED << clock, lStudents, lAct, rStudents, rAtt, rAct, pending,
                    modeVars, changes_lock, sync_active, check_active, next_id >>

\* HybridDatabase._track_change: with self.changes_lock
GuiTrack ==
    /\ pc.gui = "track"
    /\ changes_lock = "free"
    /\ pending' = track_change(pending, "attendance")
    /\ pc' = [pc EXCEPT !.gui = "idle"]
    /\ UNCHANGED << clock, storeVars, modeVars, last, changes_lock, store_lock,
                    sync_active, check_active, next_id >>

\* HybridDatabase.get_sync_status is called ...
GuiStatusBegin ==
    /\ pc.gui = "idle"
    /\ pc' = [pc EXCEPT !.gui = "status"]
    /\ UNCHANGED << clock, storeVars, pending, modeVars, last, changes_lock,
                    store_lock, sync_active, check_active, next_id >>

\* ... and counts the pending changes with self.changes_lock
GuiStatus ==
    /\ pc.gui = "status"
    /\ changes_lock = "free"
    /\ pc' = [pc EXCEPT !.gui = "idle"]
    /\ UNCHANGED << clock, storeVars, pending, modeVars, last, changes_lock,
                    store_lock, sync_active, check_active, next_id >>

\* HybridDatabase.cleanup: sync_active = False, then join(timeout=5)
GuiCleanup ==
    /\ pc.gui = "idle"
    /\ sync_active' = FALSE
    /\ pc' = [pc EXCEPT !.gui = "join"]
    /\ UNCHANGED << clock, storeVars, pending, modeVars, last, changes_lock,
                    store_lock, check_active, next_id >>

\* join returns: the worker has exited, or the five seconds are over
GuiJoin ==
    /\ pc.gui = "join"
    /\ pc' = [pc EXCEPT !.gui = "closed"]
    /\ UNCHANGED << clock, storeVars, pending, modeVars, last, changes_lock,
                    store_lock, sync_active, check_active, next_id >>

\* a worker that starts its iteration after the sleep whatever the flag says
SyncWake_ignores_flag ==
    /\ pc.sync = "sleep"
    /\ pc' = [pc EXCEPT !.sync = "pull"]
    /\ UNCHANGED << clock, storeVars, pending, modeVars, last, changes_lock,
                    store_lock, sync_active, check_active, next_id >>

\* _sync_worker: time.sleep(sync_interval) is over; `if self.sync_active`
SyncWake ==
    /\ pc.sync = "sleep"
    /\ pc' = [pc EXCEPT !.sync = IF sync_active THEN "pull" ELSE "loop"]
    /\ UNCHANGED << clock, storeVars, pending, modeVars, last, changes_lock,
                    store_lock, sync_active, check_active, next_id >>

\* sync_from_firestore has written the local tables (self.conn, no lock);
\* an error in it is caught inside and the worker goes on to the push
SyncPull(raised) ==
    /\ pc.sync = "pull"
    /\ raised => rAtt # {}
    /\ \E r \in { sync_from_firestore(lStudents, lAtt, lAct, rStudents, rAtt, rAct,
                                     clock, firebase_db) } :
          IF raised THEN UNCHANGED << lStudents, lAtt, lAct >>
          ELSE /\ lStudents' = r.ls
               /\ lAtt' = r.la
               /\ lAct' = r.lact
    /\ pc' = [pc EXCEPT !.sync = "push_lock"]
    /\ last' = Ran("sync_from_firestore", << "pull" >>)
    /\ UNCHANGED << clock, rStudents, rAtt, rAct, pending, modeVars,
                    changes_lock, store_lock, sync_active, check_active, next_id >>

\* sync_to_firestore: `with self.changes_lock`; nothing pending: return
SyncPushLock ==
    /\ pc.sync = "push_lock"
    /\ changes_lock = "free"
    /\ IF \E t \in Tables : pending[t]
       THEN /\ changes_lock' = "sync"
            /\ pc' = [pc EXCEPT !.sync = "push"]
       ELSE /\ changes_lock' = "free"
            /\ pc' = [pc EXCEPT !.sync = "loop"]
    /\ UNCHANGED << clock, storeVars, pending, modeVars, last, store_lock,
                    sync_active, check_active, next_id >>

\* the remote calls of the push are over (or one raised): pending_changes is
\* cleared or kept, the lock released
SyncPush(failAt, n) ==
    /\ pc.sync = "push"
    /\ FaultCase(failAt, n)
    /\ \E r \in { sync_to_firestore(lStudents, lAtt, lAct, rStudents, rAtt, rAct,
                                   pending, clock, firebase_db, failAt, n) } :
          /\ rStudents' = r.rs
          /\ rAtt' = r.ra
          /\ rAct' = r.ract
          /\ pending' = r.p
    /\ changes_lock' = "free"
    /\ pc' = [pc EXCEPT !.sync = "loop"]
    /\ last' = Ran("sync_to_firestore", << "push" >>)
    /\ UNCHANGED << clock, lStudents, lAtt, lAct, modeVars, store_lock,
                    sync_active, check_active, next_id >>

\* a worker that starts the next iteration without sleeping the interval
SyncLoop_no_sleep ==
    /\ pc.sync = "loop"
    /\ pc' = [pc EXCEPT !.sync = IF sync_active THEN "pull" ELSE "exit"]
    /\ UNCHANGED << clock, storeVars, pending, modeVars, last, changes_lock,
                    store_lock, sync_active, check_active, next_id >>

\* `while self.sync_active`
SyncLoop ==
    /\ pc.sync = "loop"
    /\ pc' = [pc EXCEPT !.sync = IF sync_active THEN "sleep" ELSE "exit"]
    /\ UNCHANGED << clock, storeVars, pending, modeVars, last, changes_lock,
                    store_lock, sync_active, check_active, next_id >>

GuiStep ==
    \/ GuiBegin
    \/ \E scan \in Scans : GuiStore(scan)
    \/ GuiTrack
    \/ GuiStatusBegin
    \/ GuiStatus
    \/ GuiCleanup

SyncStep ==
    \/ SyncWake
    \/ \E raised \in BOOLEAN : SyncPull(raised)
    \/ SyncPushLock
    \/ \E failAt \in Tables, n \in Faults : SyncPush(failAt, n)
    \/ SyncLoop

NextThreads ==
    \/ GuiBegin
    \/ \E scan \in Scans : GuiStore(scan)
    \/ GuiTrack
    \/ GuiStatusBegin
    \/ GuiStatus
    \/ GuiCleanup
    \/ GuiJoin
    \/ SyncWake
    \/ \E raised \in BOOLEAN : SyncPull(raised)
    \/ SyncPushLock
    \/ \E failAt \in Tables, n \in Faults : SyncPush(failAt, n)
    \/ SyncLoop

SpecThreads == InitThreads /\ [][NextThreads]_vars

\* every step of the worker ends (the remote calls return or raise), and so
\* does the wait of join
SpecThreadsFair ==
    InitThreads /\ [][NextThreads]_vars /\ WF_vars(SyncStep) /\ WF_vars(GuiJoin)

(* ======= the Attendance worksheet and the writers that number rows ===== *)
\* the GUI thread (force_bulk_attendance_sync, or check_in of the sheets
\* ledger) and the sync worker (sync_to_google_sheets) both allocate row ids
\* with get_next_id and then append; a worksheet row is [row, id]
SheetWriters == {"gui", "sync"}

\* GoogleSheetsDatabase.get_next_id: the largest ID of column 1 plus one, 1 for
\* an empty worksheet, and 1 when reading the worksheet raises
get_next_id(rows, read_ok) ==
    LET numeric_ids == { r.id : r \in rows }
    IN  IF ~read_ok THEN 1
        ELSE IF numeric_ids = {} THEN 1
        ELSE (CHOOSE m \in numeric_ids : \A n \in numeric_ids : n <= m) + 1

\* worksheet.append_rows of a batch of k rows numbered from first_id
append_rows(rows, first_id, k) ==
    rows \cup { [row |-> Cardinality(rows) + i, id |-> first_id + i - 1] :
                  i \in 1..k }

\* the spreadsheet opened, its Attendance worksheet empty
InitSheetIds ==
    /\ clock = Periods[1].start
    /\ rStudents = Enrolled
    /\ rAtt = {}
    /\ rAct = EmptyActivity
    /\ lStudents = {}
    /\ lAtt = {}
    /\ lAct = EmptyActivity
    /\ pending = NoPending
    /\ firebase_db = TRUE
    /\ local_db = TRUE
    /\ mode = "hybrid"
    /\ is_online = TRUE
    /\ net = TRUE
    /\ last = Ran("init", << >>)
    /\ pc = [t \in SheetWriters |-> "idle"]
    /\ changes_lock = "free"
    /\ store_lock = "free"
    /\ sync_active = TRUE
    /\ check_active = TRUE
    /\ next_id = [t \in SheetWriters |-> 0]

\* next_id = self.gsheets_db.get_next_id('Attendance')
IdRead(t, read_ok) ==
    /\ pc[t] = "idle"
    /\ Cardinality(rAtt) < MaxSheetRows
    /\ next_id' = [next_id EXCEPT ![t] = get_next_id(rAtt, read_ok)]
    /\ pc' = [pc EXCEPT ![t] = "append"]
    /\ UNCHANGED << clock, storeVars, pending, modeVars, last, changes_lock,
                    store_lock, sync_active, check_active >>

\* attendance_ws.append_row(new_row) / append_rows(batch_data)
IdAppend(t, k) ==
    /\ pc[t] = "append"
    /\ Cardinality(rAtt) + k <= MaxSheetRows
    /\ rAtt' = append_rows(rAtt, next_id[t], k)
    /\ pc' = [pc EXCEPT ![t] = "idle"]
    /\ UNCHANGED << clock, lStudents, lAtt, lAct, rStudents, rAct, pending,
                    modeVars, last, changes_lock, store_lock, sync_active,
                    check_active, next_id >>

\* the call ends without a row (every record is in the worksheet already, or
\* the append raised)
IdSkip(t) ==
    /\ pc[t] = "append"
    /\ pc' = [pc EXCEPT ![t] = "idle"]
    /\ UNCHANGED << clock, storeVars, pending, modeVars, last, changes_lock,
                    store_lock, sync_active, check_active, next_id >>

NextSheetIds ==
    \/ \E t \in SheetWriters, read_ok \in BOOLEAN : IdRead(t, read_ok)
    \/ \E t \in SheetWriters, k \in 1..2 : IdAppend(t, k)
    \/ \E t \in SheetWriters : IdSkip(t)

SpecSheetIds == InitSheetIds /\ [][NextSheetIds]_vars

(* ======== online_first_db.OnlineFirstDatabase: startup and monitor ====== *)
\* pc.main is the place of the thread that constructs and uses the database,
\* pc.check the place of the daemon thread running _connectivity_worker.
\* Opening the local store (StudentDatabase(db_name)) either returns or raises
\* the local storage error (openOk = FALSE).

MonitorThreads == [main |-> "init", check |-> "none"]

\* the local file an earlier run left behind: its students and its ledger
LeftoverStudents == { {}, sync_students_from_firestore({}, Enrolled) }

LeftoverAttendance(ls) == { {}, L_check_in(ls, {}, "N1", "", Periods[1].start - 1).att }

\* the outcomes of run_with_timeout(init_firebase, 10): the handle is
\* returned, init_firebase raised, the worker thread was still alive
InitOutcomes == {"ok", "error", "timeout"}

\* OnlineFirstDatabase.__init__ up to the call of init_databases
InitMonitor ==
    /\ clock = Periods[1].start
    /\ rStudents = Enrolled
    /\ rAtt = {}
    /\ rAct = EmptyActivity
    /\ lStudents \in LeftoverStudents
    /\ lAtt \in LeftoverAttendance(lStudents)
    /\ lAct = EmptyActivity
    /\ pending = NoPending
    /\ net \in BOOLEAN
    /\ mode = "unknown"
    /\ is_online = FALSE
    /\ firebase_db = FALSE
    /\ local_db = FALSE
    /\ last = Ran("init", << >>)
    /\ pc = MonitorThreads
    /\ changes_lock = "free"
    /\ store_lock = "free"
    /\ sync_active = TRUE
    /\ check_active = TRUE
    /\ next_id = NoThreads

\* OnlineFirstDatabase._check_and_sync_offline_data_on_startup: everything
\* after the file test runs inside one try.  [ldb, la, lact, ra, ract]
\* variant: the startup sync empties the local tables whether or not the
\* push went through
check_and_sync_offline_data_on_startup_clears_anyway(ldb, ls, la, lact, ra, ract, openOk, failAt) ==
    LET has_data == la # {} \/ \E k \in OFKinds : lact[k] # {}
        pushed == sync_local_to_firebase(ls, la, lact, ra, ract, failAt)
        cleared == clear_local_database(la, lact)
    IN  IF ~has_data \/ (~ldb /\ ~openOk)
        THEN [ldb |-> ldb, la |-> la, lact |-> lact, ra |-> ra, ract |-> ract]
        ELSE [ldb |-> TRUE, la |-> cleared.la, lact |-> cleared.lact,
              ra |-> pushed.ra, ract |-> pushed.ract]

check_and_sync_offline_data_on_startup(ldb, ls, la, lact, ra, ract, openOk, failAt) ==
    LET has_data == la # {} \/ \E k \in OFKinds : lact[k] # {}
        pushed == sync_local_to_firebase(ls, la, lact, ra, ract, failAt)
        cleared == clear_local_database(la, lact)
    IN  IF ~has_data \/ (~ldb /\ ~openOk)
        THEN [ldb |-> ldb, la |-> la, lact |-> lact, ra |-> ra, ract |-> ract]
        ELSE IF pushed.ok
        THEN [ldb |-> TRUE, la |-> cleared.la, lact |-> cleared.lact,
              ra |-> pushed.ra, ract |-> pushed.ract]
        ELSE [ldb |-> TRUE, la |-> la, lact |-> lact,
              ra |-> pushed.ra, ract |-> pushed.ract]

\* an init_databases that falls back to offline mode only when init_firebase
\* raised, not when it was still running at the timeout
init_databases_no_timeout_fallback(has_internet, outcome, openOk, ldb, ls, la, lact, ra, ract, failAt) ==
    LET synced == check_and_sync_offline_data_on_startup(ldb, ls, la, lact, ra, ract,
                                                         openOk, failAt)
        offline == [returned |-> ldb \/ openOk, fb |-> FALSE, ldb |-> ldb \/ openOk,
                    is_online |-> FALSE, mode |-> "offline",
                    la |-> la, lact |-> lact, ra |-> ra, ract |-> ract]
    IN  IF ~has_internet \/ outcome = "error" THEN offline
        ELSE IF outcome = "timeout" THEN [offline EXCEPT !.mode = "unknown"]
        ELSE [returned |-> TRUE, fb |-> TRUE, ldb |-> synced.ldb,
              is_online |-> TRUE, mode |-> "online",
              la |-> synced.la, lact |-> synced.lact,
              ra |-> synced.ra, ract |-> synced.ract]

\* OnlineFirstDatabase.init_databases.  has_internet = the probe's answer,
\* outcome = what run_with_timeout did; returned = FALSE when init_local_db
\* let the local storage error out of the constructor.
\* [returned, fb, ldb, is_online, mode, la, lact, ra, ract]
init_databases(has_internet, outcome, openOk, ldb, ls, la, lact, ra, ract, failAt) ==
    LET synced == check_and_sync_offline_data_on_startup(ldb, ls, la, lact, ra, ract,
                                                         openOk, failAt)
        offline == [returned |-> ldb \/ openOk, fb |-> FALSE, ldb |-> ldb \/ openOk,
                    is_online |-> FALSE, mode |-> "offline",
                    la |-> la, lact |-> lact, ra |-> ra, ract |-> ract]
    IN  IF ~has_internet \/ outcome # "ok" THEN offline
        ELSE [returned |-> TRUE, fb |-> TRUE, ldb |-> synced.ldb,
              is_online |-> TRUE, mode |-> "online",
              la |-> synced.la, lact |-> synced.lact,
              ra |-> synced.ra, ract |-> synced.ract]

\* the inputs of init_databases that matter in the current state
StartupCase(outcome, openOk, failAt) ==
    /\ (~net => outcome = "ok")
    /\ (failAt # "none" =>
          /\ net /\ outcome = "ok" /\ openOk
          /\ IF failAt = "attendance" THEN lAtt # {} ELSE lAct[failAt] # {})

\* __init__ calls init_databases; when it returns, start_connectivity_monitor
\* starts the daemon thread
InitDatabases(outcome, openOk, failAt) ==
    /\ pc.main = "init"
    /\ StartupCase(outcome, openOk, failAt)
    /\ \E r \in { init_databases(net, outcome, openOk, local_db, lStudents, lAtt,
                                 lAct, rAtt, rAct, failAt) } :
          /\ firebase_db' = r.fb
          /\ local_db' = r.ldb
          /\ is_online' = r.is_online
          /\ mode' = r.mode
          /\ lAtt' = r.la
          /\ lAct' = r.lact
          /\ rAtt' = r.ra
          /\ rAct' = r.ract
          /\ pc' = IF r.returned THEN [main |-> "run", check |-> "sleep"]
                   ELSE [main |-> "failed", check |-> "none"]
          /\ last' = [op |-> "init_databases", has_internet |-> net,
                      outcome |-> outcome, returned |-> r.returned,
                      mode |-> r.mode, local_db |-> r.ldb]
    /\ UNCHANGED << clock, lStudents, rStudents, pending, net, changes_lock,
                    store_lock, sync_active, check_active, next_id >>

\* one iteration of _connectivity_worker in which nothing raises
MonitorRound(initOk, failAt) ==
    /\ pc.check = "sleep"
    /\ check_active
    /\ ConnectivityCheck(initOk, failAt)

\* one iteration of _connectivity_worker in which _transition_to_offline
\* raises: init_local_db opens the local store outside any try, and the loop
\* has no handler, so the error ends the thread
MonitorCrash ==
    /\ pc.check = "sleep"
    /\ check_active
    /\ is_online /\ ~net
    /\ ~local_db
    /\ is_online' = FALSE
    /\ mode' = "offline"
    /\ pc' = [pc EXCEPT !.check = "dead"]
    /\ last' = [op |-> "_connectivity_worker", raised |-> "_transition_to_offline"]
    /\ UNCHANGED << clock, storeVars, pending, firebase_db, local_db, net,
                    changes_lock, store_lock, sync_active, check_active, next_id >>

\* the loop test of _connectivity_worker after cleanup cleared the flag
MonitorExit ==
    /\ pc.check = "sleep"
    /\ ~check_active
    /\ pc' = [pc EXCEPT !.check = "exit"]
    /\ UNCHANGED << clock, storeVars, pending, modeVars, last, changes_lock,
                    store_lock, sync_active, check_active, next_id >>

\* OnlineFirstDatabase.cleanup: clears the flag, then joins for five seconds
MonitorCleanup ==
    /\ pc.main = "run"
    /\ check_active' = FALSE
    /\ pc' = [pc EXCEPT !.main = "join"]
    /\ UNCHANGED << clock, storeVars, pending, modeVars, last, changes_lock,
                    store_lock, sync_active, next_id >>

\* the join returns (thread gone or timeout over); cleanup then makes its
\* final push of the local rows, ignoring any error, and returns
MonitorJoin(failAt) ==
    /\ pc.main = "join"
    /\ IF local_db /\ is_online /\ firebase_db /\ net
       THEN /\ (failAt # "none" =>
                  IF failAt = "attendance" THEN lAtt # {} ELSE lAct[failAt] # {})
            /\ \E r \in { sync_local_to_firebase(lStudents, lAtt, lAct, rAtt, rAct,
                                                 failAt) } :
                  /\ rAtt' = r.ra
                  /\ rAct' = r.ract
       ELSE /\ failAt = "none"
            /\ UNCHANGED << rAtt, rAct >>
    /\ pc' = [pc EXCEPT !.main = "closed"]
    /\ UNCHANGED << clock, lStudents, lAtt, lAct, rStudents, pending, modeVars,
                    last, changes_lock, store_lock, sync_active, check_active,
                    next_id >>

\* the calls the kiosk makes while the database is in use
MonitorCall ==
    /\ pc.main = "run"
    /\ \/ \E scan \in Scans : OFCheckIn(scan)
       \/ \E k \in OFCallKinds, scan \in Scans : OFStartActivity(k, scan)
       \/ \E k \in OFCallKinds, scan \in Scans : OFEndActivity(k, scan)

\* the network path changes while the database exists
MonitorNet ==
    /\ pc.main \in {"run", "join"}
    /\ NetChange

NextMonitor ==
    \/ \E outcome \in InitOutcomes, openOk \in BOOLEAN, failAt \in OFFailAt :
          InitDatabases(outcome, openOk, failAt)
    \/ \E initOk \in BOOLEAN, failAt \in OFFailAt : MonitorRound(initOk, failAt)
    \/ MonitorCrash
    \/ MonitorExit
    \/ MonitorCleanup
    \/ \E failAt \in OFFailAt : MonitorJoin(failAt)
    \/ MonitorCall
    \/ MonitorNet

SpecMonitor == InitMonitor /\ [][NextMonitor]_vars

SpecMonitorFair == InitMonitor /\ [][NextMonitor]_vars /\ WF_vars(MonitorExit) /\ WF_vars(\E failAt \in OFFailAt : MonitorJoin(failAt))

\* the monitor thread keeps making its rounds, and a round in which the remote
\* handle can be set up and the push meets no error is not refused for ever
SpecMonitorRetry == InitMonitor /\ [][NextMonitor]_vars /\ SF_vars(MonitorRound(TRUE, "none"))

(* ===== the monitor's transitions statement by statement, with calls ===== *)
\* The transitions run on the monitor thread while the GUI thread makes its
\* calls; no lock is taken, so a call can come between any two statements.
\* pc.check = "init_local": _transition_to_offline has set mode and is about
\* to call init_local_db; pc.check = "push": _transition_to_online has set
\* mode = "online" and has not yet pushed the buffered rows.

\* _connectivity_worker sees the probe fail: is_online = False, then
\* _transition_to_offline sets self.mode = "offline"
MonitorGoOffline ==
    /\ pc.check = "sleep"
    /\ check_active
    /\ is_online /\ ~net
    /\ is_online' = FALSE
    /\ mode' = "offline"
    /\ pc' = [pc EXCEPT !.check = "init_local"]
    /\ UNCHANGED << clock, storeVars, pending, firebase_db, local_db, net, last,
                    changes_lock, store_lock, sync_active, check_active, next_id >>

\* ... and calls init_local_db: the store is opened when it is not yet, and
\* an error of the open ends the thread (raised)
MonitorInitLocalDb(raised, synced) ==
    /\ pc.check = "init_local"
    /\ (raised => ~local_db /\ synced)
    /\ (synced \/ (~local_db /\ firebase_db))
    /\ IF raised
       THEN /\ pc' = [pc EXCEPT !.check = "dead"]
            /\ UNCHANGED << lStudents, local_db >>
       ELSE /\ lStudents' = init_local_db(firebase_db, local_db, lStudents,
                                          rStudents, synced)
            /\ local_db' = TRUE
            /\ pc' = [pc EXCEPT !.check = "sleep"]
    /\ UNCHANGED << clock, lAtt, lAct, rStudents, rAtt, rAct, pending,
                    firebase_db, mode, is_online, net, last,
                    changes_lock, store_lock, sync_active, check_active, next_id >>

\* _connectivity_worker sees the probe succeed: is_online = True, then
\* _transition_to_online sets up the remote handle when it is missing and
\* sets self.mode = "online" (or "offline" and returns when the set-up fails)
MonitorGoOnline(initOk) ==
    /\ pc.check = "sleep"
    /\ check_active
    /\ ~is_online /\ net
    /\ (firebase_db => initOk)
    /\ is_online' = TRUE
    /\ IF ~firebase_db /\ ~initOk
       THEN /\ mode' = "offline"
            /\ UNCHANGED << firebase_db, pc >>
       ELSE /\ firebase_db' = TRUE
            /\ mode' = "online"
            /\ pc' = [pc EXCEPT !.check = "push"]
    /\ UNCHANGED << clock, storeVars, pending, local_db, net, last,
                    changes_lock, store_lock, sync_active, check_active, next_id >>

\* ... and, with a local store that holds rows, pushes and clears them; an
\* error sets mode back to "offline"
MonitorPushBuffered(failAt) ==
    /\ pc.check = "push"
    /\ OFFaultCase(TRUE, failAt)
    /\ \E r \in { transition_to_online(firebase_db, local_db, lStudents, lAtt, lAct,
                                       rAtt, rAct, TRUE, failAt) } :
          /\ mode' = r.mode
          /\ lAtt' = r.la
          /\ lAct' = r.lact
          /\ rAtt' = r.ra
          /\ rAct' = r.ract
    /\ pc' = [pc EXCEPT !.check = "sleep"]
    /\ UNCHANGED << clock, lStudents, rStudents, pending, firebase_db, local_db,
                    is_online, net, last,
                    changes_lock, store_lock, sync_active, check_active, next_id >>

NextMonitorSteps ==
    \/ \E outcome \in InitOutcomes, openOk \in BOOLEAN, failAt \in OFFailAt :
          InitDatabases(outcome, openOk, failAt)
    \/ MonitorGoOffline
    \/ \E raised \in BOOLEAN, synced \in BOOLEAN : MonitorInitLocalDb(raised, synced)
    \/ \E initOk \in BOOLEAN : MonitorGoOnline(initOk)
    \/ \E failAt \in OFFailAt : MonitorPushBuffered(failAt)
    \/ MonitorExit
    \/ MonitorCleanup
    \/ \E failAt \in OFFailAt : MonitorJoin(failAt)
    \/ MonitorCall
    \/ MonitorNet

SpecMonitorSteps == InitMonitor /\ [][NextMonitorSteps]_vars

(* ======== the hybrid kiosk pulling a ledger other kiosks write ========= *)
\* The local store starts empty; another kiosk starts and ends activities in
\* the remote ledger while days pass, and the sync worker pulls.
NextPull ==
    \/ \E k \in RemoteKinds, scan \in Scans : RemoteStartActivity(k, scan)
    \/ \E k \in Kinds, scan \in Scans : RemoteEndActivity(k, scan)
    \/ SyncFromFirestore
    \/ SweepTick

SpecPull == Init /\ [][NextPull]_vars

(* ============================ properties =============================== *)
OpenRecords(tbl) == { r \in tbl : r.end = NULL }

\* C1: in every reachable state each store holds at most one bathroom record
\* whose end is null (a single hall pass across all students)
C1_SingleHallPass ==
    /\ Cardinality(OpenRecords(rAct["bathroom"])) <= 1
    /\ Cardinality(OpenRecords(lAct["bathroom"])) <= 1

\* the students the remote store knows, as the kiosk scans them
KnownScans ==
    { scan \in Scans :
        IF scan[1] # "" THEN Fb_get_student_by_uid(rStudents, scan[1])
        ELSE Fb_get_student_by_student_id(rStudents, scan[2]) }

C3_PullKeepsClosedActivity ==
    LET pull == sync_from_firestore(lStudents, lAtt, lAct, rStudents, rAtt, rAct,
                                    clock, firebase_db)
    IN  \A k \in Kinds : \A r \in lAct[k] : r.end # NULL => r \in pull.lact[k]

\* a pull has run over a closed local record whose remote copy is still open
C3_Witness ==
    /\ last.op = "sync_from_firestore"
    /\ firebase_db
    /\ \E k \in Kinds : \E r \in lAct[k] : \E d \in rAct[k] :
          /\ Truthy(r.end)
          /\ d.uid = r.uid /\ d.start.t = r.start.t
          /\ DateOf(d.start.t) = DateOf(clock)
          /\ d.end = NULL

\* C4: a pull never reopens an attendance record the local side has closed:
\* when the local record of (student, today) has a check-out and the remote
\* copy has an empty one, the local record still has its check-out after the pull
C4_PullKeepsCheckOut ==
    LET pull == sync_from_firestore(lStudents, lAtt, lAct, rStudents, rAtt, rAct,
                                    clock, firebase_db)
    IN  \A a \in lAtt :
          ( /\ a.date = DateOf(clock)
            /\ Truthy(a.cout)
            /\ \E d \in rAtt : d.uid = a.uid /\ d.date = a.date /\ ~Truthy(d.cout) )
          => \E b \in pull.la : b.uid = a.uid /\ b.date = a.date /\ b.cout = a.cout

\* C5: a force sync run twice in a row, no ledger write in between and no
\* remote call failing, changes nothing the second time: the local and the
\* remote store hold the same records with the same field values as after
\* the first run
C5_ForceSyncIdempotent ==
    LET once == force_sync(lStudents, lAtt, lAct, rStudents, rAtt, rAct, pending,
                           clock, firebase_db, PushOrder[1], 0)
    IN  \A later \in clock..(MaxClock + 1) :
          LET twice == force_sync(once.ls, once.la, once.lact, once.rs, once.ra,
                                  once.ract, once.p, later, firebase_db,
                                  PushOrder[1], 0)
          IN  /\ twice.ls = once.ls /\ twice.la = once.la /\ twice.lact = once.lact
              /\ twice.rs = once.rs /\ twice.ra = once.ra /\ twice.ract = once.ract

\* a force sync has run with local records to push and remote ones to pull
C5_Witness ==
    /\ last.op = "force_sync"
    /\ firebase_db
    /\ pending = NoPending
    /\ lAtt # {} /\ rAtt # {}
    /\ \E k \in Kinds : lAct[k] # {} /\ rAct[k] # {}

\* C6: when the kiosk comes back online with buffered records, each buffered
\* attendance record (student, date) and each buffered activity record
\* (student, start) is in the remote store exactly once after the transition,
\* also when the remote store already holds that record
C6_BufferedExactlyOnce ==
    [][ (mode = "offline" /\ mode' = "online") =>
          /\ \A a \in lAtt :
                Cardinality({ d \in rAtt' : d.uid = a.uid /\ d.date = a.date }) = 1
          /\ \A k \in OFKinds : \A r \in lAct[k] :
                Cardinality({ d \in rAct'[k] :
                                d.uid = r.uid /\ d.start.t = r.start.t }) = 1 ]_vars

\* C7: when the remote answers a push with N rate-limit errors in a row, the
\* push succeeds and clears the dirty set if N < max_retries, and it fails and
\* leaves the dirty entry in place if N >= max_retries
C7_RetryOutcome ==
    \A failAt \in Tables : \A n \in 1..MaxFaults :
        (firebase_db /\ pending[failAt]) =>
            LET push == sync_to_firestore(lStudents, lAtt, lAct, rStudents, rAtt,
                                          rAct, pending, clock, firebase_db,
                                          failAt, n)
            IN  IF retry_with_backoff(n, MaxRetries)
                THEN push.ok /\ push.p = NoPending
                ELSE ~push.ok /\ push.p[failAt]

\* C8: a sweep that runs after period P has ended closes every activity record
\* (any kind) that was opened during P and never ended, with end = P's end and
\* duration = the whole minutes from its start to P's end
C8_SweepClosesAfterPeriod ==
    LET P == Periods[1]
        period_start == DayStart(clock) + P.start
        period_end == DayStart(clock) + P.end
        swept == Hy_auto_checkout_students(lAtt, lAct, pending, clock, firebase_db)
    IN  (firebase_db /\ clock > period_end) =>
          \A k \in Kinds : \A r \in OpenRecords(lAct[k]) :
              (period_start <= r.start.t /\ r.start.t <= period_end) =>
                  \E c \in swept.lact[k] :
                      /\ c.uid = r.uid /\ c.start = r.start
                      /\ Truthy(c.end) /\ c.end.t = period_end
                      /\ c.dur = ((period_end - r.start.t) * TickSeconds)
                                    \div SecondsPerMinute

WholeMinutes(r) ==
    IF Truthy(r.end)
    THEN r.dur = ((r.end.t - r.start.t) * TickSeconds) \div SecondsPerMinute
    ELSE r.dur = DurNull

\* C9: in every reachable state every closed activity record has
\* duration_minutes = floor(seconds from start to end / 60) and every open one
\* has duration_minutes null, in the local and in the remote store
C9_DurationWholeMinutes ==
    \A k \in Kinds :
        /\ \A r \in lAct[k] : WholeMinutes(r)
        /\ \A d \in rAct[k] : WholeMinutes(d)

\* a record closed after a number of seconds that is no whole number of
\* minutes is held by both stores, so a sync has copied it
C9_Witness ==
    \E k \in Kinds : \E r \in lAct[k] : \E d \in rAct[k] :
        /\ Truthy(r.end) /\ Truthy(d.end)
        /\ d.uid = r.uid /\ d.start.t = r.start.t /\ d.end.t = r.end.t
        /\ ((r.end.t - r.start.t) * TickSeconds) % SecondsPerMinute # 0

\* C10: every force_sync call runs its push phase (local to remote) before
\* its pull phase (remote to local)
C10_PushBeforePull ==
    last.op = "force_sync" => last.phases = << "push", "pull" >>

\* C11: a push that completes without error leaves no table dirty; a push in
\* which a remote write fails (after any number of rate-limit errors, at any
\* dirty table) does not succeed and leaves every entry dirty that was dirty
\* before it
C11_PushOutcome ==
    \A failAt \in Tables : \A n \in Faults :
        LET push == sync_to_firestore(lStudents, lAtt, lAct, rStudents, rAtt, rAct,
                                      pending, clock, firebase_db, failAt, n)
        IN  (firebase_db /\ pending # NoPending) =>
              /\ push.ran
              /\ push.ok => push.p = NoPending
              /\ (n > 0 /\ pending[failAt]) => ~push.ok
              /\ ~push.ok => \A t \in Tables : pending[t] => push.p[t]

\* a push has failed with two tables dirty, and both are still dirty
C11_Witness ==
    /\ last.op = "sync_to_firestore"
    /\ pending["attendance"] /\ pending["bathroom"]
    /\ lAtt # {} /\ lAct["bathroom"] # {}

\* C12: whenever a push has completed successfully and left no table dirty,
\* every local attendance record and every local bathroom record of today has
\* a counterpart in the remote store (same student, same date and check-in /
\* same start), however many records the table holds
C12_NoSilentLoss ==
    (last.op = "sync_to_google_sheets" /\ pending = NoPending) =>
        /\ \A a \in lAtt : a.date = DateOf(clock) =>
              \E s \in lStudents : \E e \in rAtt :
                  /\ (s.id = a.uid \/ s.student_id = a.uid)
                  /\ e.uid = s.student_id /\ e.date = a.date /\ e.cin = a.cin
        /\ \A r \in lAct["bathroom"] : DateOf(r.start.t) = DateOf(clock) =>
              \E s \in lStudents : \E e \in rAct["bathroom"] :
                  /\ (s.id = r.uid \/ s.student_id = r.uid)
                  /\ e.uid = s.student_id /\ e.start = r.start

\* the answer sequences a wrapped call may meet
RetryAnswers ==
    UNION { [1..k -> {"ok"} \cup QuotaMessages \cup OtherMessages] :
              k \in 1..(MaxRetries + 1) }

\* C13: when the remote answers a wrapped call with an error that is no
\* rate-limit error, the wrapper makes no further call, does not wait after
\* it and raises that error: met at the first call, the function has been
\* called exactly once and nothing has been waited for; the push whose
\* append met it fails and writes no attendance row
C13_NonTransientFailsAtOnce ==
    /\ \A answers \in RetryAnswers : \A k \in 1..Len(answers) :
          ( /\ k <= MaxRetries
            /\ answers[k] \in OtherMessages
            /\ \A j \in 1..(k - 1) : answers[j] \in QuotaMessages )
          => LET run == retry_attempts(answers, 0, MaxRetries, 0)
             IN  /\ ~run.ok
                 /\ run.raised = answers[k]
                 /\ run.calls = k
                 /\ run.waits = k - 1
    /\ \A msg \in OtherMessages :
          ( /\ firebase_db /\ pending["attendance"]
            /\ attendance_batch(lStudents, lAtt, rAtt, clock) # {} )
          => \A first \in FirstBreaks(breaks_of_today(lStudents, lAct["bathroom"],
                                                      clock)) :
               LET push == sync_to_google_sheets(lStudents, lAtt, lAct, rStudents,
                                                 rAtt, rAct, pending, clock,
                                                 firebase_db, "attendance",
                                                 << msg >>, first)
               IN  ~push.ok /\ push.ra = rAtt /\ push.p = pending

\* a push has met an error of another kind at the first call of the wrapped
\* append: the attendance table is still dirty and its rows are not in the sheet
C13_Witness ==
    /\ last.op = "sync_to_google_sheets"
    /\ "answers" \in DOMAIN last
    /\ last.failAt = "attendance"
    /\ last.answers[1] \in OtherMessages
    /\ pending["attendance"]
    /\ rAtt = {} /\ lAtt # {}

\* C14: a transition from offline to online in which the remote handle cannot
\* be set up (error or timeout), or in which the push of the buffered records
\* fails, ends in offline mode with every buffered local record still in the
\* local store
C14_FailedTransitionStaysOffline ==
    mode = "offline" =>
      \A initOk \in BOOLEAN : \A failAt \in OFFailAt :
        LET r == transition_to_online(firebase_db, local_db, lStudents, lAtt, lAct,
                                      rAtt, rAct, initOk, failAt)
            has_data == lAtt # {} \/ \E k \in OFKinds : lAct[k] # {}
            init_failed == ~firebase_db /\ ~initOk
            push_failed ==
                /\ ~init_failed /\ local_db /\ has_data
                /\ ~sync_local_to_firebase(lStudents, lAtt, lAct, rAtt, rAct,
                                           failAt).ok
        IN  (init_failed \/ push_failed) =>
              /\ r.mode = "offline"
              /\ r.la = lAtt
              /\ r.lact = lAct

\* the connectivity worker has seen the network again, the push of the
\* buffered records failed, and the kiosk is offline with its records
C14_Witness ==
    /\ mode = "offline" /\ is_online /\ firebase_db
    /\ lAtt # {}
    /\ lAct["bathroom"] # {}

\* C15: every ledger call of the online-first kiosk acts on the store of the
\* current mode and leaves the other store as it was: in offline mode the
\* remote students, attendance and activity collections do not change, in
\* online mode the local tables do not change
C15_ModeSelectsStore ==
    [][ RegCall =>
          /\ (mode = "offline" => UNCHANGED << rStudents, rAtt, rAct >>)
          /\ (mode = "online" => UNCHANGED << lStudents, lAtt, lAct >>) ]_vars

\* the periods that hold the time of day t, their end excluded
PeriodsHalfOpen(t) ==
    { i \in 1..Len(Periods) : Periods[i].start <= t /\ t < Periods[i].end }

\* C16: the scheduled check-out of a record that check_in wrote at time t is
\* the end of the one period P with P.start <= t < P.end, and is empty when
\* there is no such period; a check-in at the very end of a period does not
\* get that period's end
C16_ScheduledCheckOutHalfOpen ==
    \A a \in rAtt :
        a.doc[1] = "auto" =>
            LET t == TimeOfDay(a.cin.t)
                hits == PeriodsHalfOpen(t)
            IN  IF hits = {}
                THEN a.sched = EMPTY
                ELSE /\ Cardinality(hits) = 1
                     /\ \A i \in hits :
                          a.sched = Iso(DayStart(a.cin.t) + Periods[i].end)

\* C17: the label of a time of day t is the name of the period with
\* start <= t < end; "Passing" when t lies between one period's end and the
\* next period's start; "Before School" when t is before the first period's
\* start; "After School" when t is at or after the last period's end; exactly
\* one of these cases holds for every t, and the label is never empty
C17_PeriodResolutionTotal ==
    last.op = "update_period_label" =>
        LET t == last.at
            n == Len(SCHEDULE)
            in_period == { i \in 1..n : SCHEDULE[i].start <= t /\ t < SCHEDULE[i].end }
            passing == \E i \in 1..(n - 1) :
                          SCHEDULE[i].end <= t /\ t < SCHEDULE[i + 1].start
            before == t < SCHEDULE[1].start
            after == t >= SCHEDULE[n].end
            cases == Cardinality(in_period) + (IF passing THEN 1 ELSE 0)
                       + (IF before THEN 1 ELSE 0) + (IF after THEN 1 ELSE 0)
        IN  /\ cases = 1
            /\ last.label # ""
            /\ \A i \in in_period : last.label = SCHEDULE[i].name
            /\ (passing => last.label = "Passing")
            /\ (before => last.label = "Before School")
            /\ (after => last.label = "After School")

\* the label was drawn at 08:10, between Period 1 and Period 2
C17_Witness ==
    /\ last.op = "update_period_label"
    /\ last.at = Minute(8, 10)
    /\ last.label = "Passing"

\* an attendance document that is open and whose scheduled check-out is set
\* and not after now
SweepDue(a, now) ==
    /\ ~Truthy(a.cout)
    /\ Truthy(a.sched) /\ a.sched.t <= now

\* C18: after the boundary sweep has run at time now no attendance record is
\* left open whose scheduled check-out is set and <= now; each such record is
\* closed with check-out = now; the records whose scheduled check-out is empty
\* or in the future are as they were
C18_SweepClosesDueRecords ==
    last.op = "auto_checkout_students" =>
        /\ \A a \in rAtt : ~SweepDue(a, last.at)
        /\ \A b \in last.before :
              IF SweepDue(b, last.at)
              THEN [b EXCEPT !.cout = Iso(last.at)] \in rAtt
              ELSE b \in rAtt

\* C19: after every add_student and link_nfc_card_to_student call no two
\* student records share an identifier or a school id, every student that was
\* stored is still stored, and add_student returns False and changes nothing
\* when the identifier or the school id exists already
C19_StudentUniqueness ==
    [][ /\ \A s, t \in rStudents' :
              (s.doc = t.doc \/ s.student_id = t.student_id) => s = t
        /\ \A s \in rStudents : \E t \in rStudents' : t.student_id = s.student_id
        /\ \A nfc_uid \in Cards \cup {""} : \A student_id \in SchoolIds :
              ( \/ (nfc_uid # "" /\ \E s \in rStudents : s.doc = nfc_uid)
                \/ \E s \in rStudents : s.student_id = student_id )
              => LET r == Fb_add_student(rStudents, nfc_uid, student_id)
                 IN  ~r.ok /\ r.students = rStudents ]_vars

\* the attendance records of one student on one date, under any identifier
\* the student has
RecordsOf(att, s, date) ==
    { a \in att : a.date = date /\ a.uid \in {s.doc, s.nfc_uid, s.student_id} }

\* C20: a store holds at most one attendance record for a student and a date,
\* whichever identifier (card UID or school id) each check-in used
C20_OneRecordPerStudentAndDate ==
    \A s \in rStudents : \A date \in { a.date : a \in rAtt } :
        Cardinality(RecordsOf(rAtt, s, date)) <= 1

\* C21: a foreground call (check_in's _track_change, get_sync_status) never
\* waits for a lock that the push phase holds while it makes its remote calls
C21_ForegroundNeverWaitsForPush ==
    ~ ( /\ pc.gui \in {"track", "status"}
        /\ changes_lock = "sync"
        /\ pc.sync = "push" )

\* C22: the GUI thread and the sync worker are never inside a read/write
\* section of the local store at the same time
C22_LocalStoreExclusive ==
    ~ ( pc.gui \in GuiStorePlaces /\ pc.sync \in SyncStorePlaces )

\* C23: no two rows of the Attendance worksheet carry the same ID, under any
\* interleaving of the writers and also when reading the current ids fails
C23_RowIdsUnique ==
    \A r, q \in rAtt : r.id = q.id => r = q

\* C24: a failed iteration never terminates a background loop: while the
\* shutdown flag is not set, the connectivity monitor is never found ended by
\* an error raised in one of its iterations.
C24_FailedIterationKeepsLoop ==
    check_active => pc.check # "dead"

MonitorShutsDown ==
    /\ [][~check_active => (is_online' = is_online /\ mode' = mode)]_vars
    /\ (~check_active ~> pc.check \in {"exit", "dead"})
    /\ (pc.main = "join" ~> pc.main = "closed")

\* C26: startup ends in a definite mode: when init_databases returns, mode is
\* online only if the probe succeeded and the remote initialisation returned
\* within its timeout, and offline with an opened local store in every other
\* case; it is never unknown.
C26_StartupDefiniteMode ==
    (last.op = "init_databases" /\ last.returned) =>
        /\ last.mode \in {"online", "offline"}
        /\ (last.mode = "online" => (last.has_internet /\ last.outcome = "ok"))
        /\ (~(last.has_internet /\ last.outcome = "ok") =>
              (last.mode = "offline" /\ last.local_db))

\* init_databases has returned after the remote initialisation timed out
C26_Witness ==
    /\ last.op = "init_databases" /\ last.returned
    /\ last.has_internet /\ last.outcome = "timeout"
    /\ mode = "offline" /\ local_db /\ pc.main = "run"

\* OnlineFirstDatabase.check_in as its caller sees it: the answer of the
\* store the call is delegated to; when the remote store cannot be reached
\* its student lookup swallows the error and answers None.  [ok, msg]
OF_check_in(scan) ==
    IF Route = "firebase"
    THEN IF net
         THEN [ok |-> Fb_check_in(rStudents, rAtt, scan[1], scan[2], clock).ok,
               msg |-> Fb_check_in(rStudents, rAtt, scan[1], scan[2], clock).msg]
         ELSE [ok |-> FALSE, msg |-> "Student not found in database"]
    ELSE IF Route = "local"
    THEN [ok |-> L_check_in(lStudents, lAtt, scan[1], scan[2], clock).ok,
          msg |-> L_check_in(lStudents, lAtt, scan[1], scan[2], clock).msg]
    ELSE [ok |-> FALSE, msg |-> "Database not available"]

\* the scans of enrolled students who have no attendance record for today
KnownAndDue(scan) ==
    /\ IF scan[1] # "" THEN Fb_get_student_by_uid(rStudents, scan[1])
       ELSE Fb_get_student_by_student_id(rStudents, scan[2])
    /\ ~Fb_is_checked_in(rAtt, get_identifier(scan[1], scan[2]), clock)
    /\ ~L_is_checked_in(lAtt, get_identifier(scan[1], scan[2]), clock)

\* C27: a remote outage never fails a user-facing ledger action: while the
\* remote store is unreachable, a check-in of an enrolled student who is not
\* yet checked in today succeeds, also before the monitor has noticed.
C27_OutageNeverFailsCheckIn ==
    (pc.main = "run" /\ ~net) =>
        \A scan \in Scans : KnownAndDue(scan) => OF_check_in(scan).ok

\* the student named by identifier has an attendance record for today
HasAttendanceToday(att, identifier) ==
    \E a \in att : a.uid = identifier /\ a.date = DateOf(clock)

\* C28: starting an activity auto-checks the student in: whenever a start
\* call answers success, or creates an activity record, the student has an
\* attendance record for today in the ledger the call wrote; a call that
\* fails (a failed auto check-in included) creates no activity record.
C28_StartAutoChecksIn ==
    \A k \in Kinds, scan \in Scans :
        LET identifier == get_identifier(scan[1], scan[2])
            hy == Hy_start_activity(k, lStudents, lAtt, lAct[k], pending,
                                    scan[1], scan[2], clock)
        IN  /\ (hy.ok \/ hy.tbl # lAct[k]) => HasAttendanceToday(hy.att, identifier)
            /\ ~hy.ok => hy.tbl = lAct[k]
            /\ \A pick \in Fb_open_of(rAct[k], identifier) \cup {NULL} :
                  LET fb == Fb_start_activity(k, rStudents, rAtt, rAct[k],
                                              identifier, clock, pick)
                  IN  /\ (fb.ok \/ fb.coll # rAct[k]) =>
                            HasAttendanceToday(fb.att, identifier)
                      /\ ~fb.ok => fb.coll = rAct[k]

\* a start call has just checked the student in and opened the record
C28_Witness ==
    /\ last.op = "call"
    /\ \E k \in Kinds : \E r \in lAct[k] :
          /\ r.end = NULL /\ r.start.t = clock
          /\ \E a \in lAtt : a.uid = r.uid /\ a.cin.t = clock /\ a.date = DateOf(clock)

\* the answers of the three tracked foreground calls in the current state
AnswerCheckIn(scan) ==
    Hy_check_in(lStudents, lAtt, pending, scan[1], scan[2], clock)

AnswerStart(k, scan) ==
    Hy_start_activity(k, lStudents, lAtt, lAct[k], pending, scan[1], scan[2], clock)

AnswerEnd(k, scan) ==
    Hy_end_activity(k, lAct[k], pending, get_identifier(scan[1], scan[2]), clock)

\* a dirty entry goes away only in a push, and then every entry goes
ClearedOnlyByPush ==
    \A t \in Tables : (pending[t] /\ ~pending'[t]) =>
        /\ last'.op \in {"sync_to_firestore", "force_sync", "sync_worker"}
        /\ pending' = NoPending

HasLocalCounterpart(tbl, d) ==
    \E r \in tbl : r.uid = d.uid /\ r.start.t = d.start.t

\* C30: pull scope and insertion: right after a pull, every remote activity
\* record that started today or is still open, whatever its start date, has
\* a local counterpart.
C30_PullScope ==
    last.op = "sync_from_firestore" =>
        \A k \in Kinds : \A d \in rAct[k] :
            (DateOf(d.start.t) = DateOf(clock) \/ d.end = NULL) =>
                HasLocalCounterpart(lAct[k], d)

\* what the pull does: the records that started today have a counterpart,
\* and one inserted by the pull carries the remote document's fields
PullScopeToday ==
    last.op = "sync_from_firestore" =>
        \A k \in Kinds : \A d \in rAct[k] :
            DateOf(d.start.t) = DateOf(clock) =>
                \E r \in lAct[k] : /\ r.uid = d.uid /\ r.start = d.start
                                   /\ r.end = d.end /\ r.dur = d.dur

\* the local rows the pull matches with remote document d: same student and
\* the start in the remote or in the normalised format
LocalCounterparts(tbl, d) ==
    { r \in tbl : r.uid = d.uid /\ (r.start = d.start \/ r.start = Sql(d.start.t)) }

\* the closed remote records of today the pull meets for local record r
ClosedRemoteOf(k, r) ==
    { d \in rAct[k] : /\ Truthy(d.start) /\ DateOf(d.start.t) = DateOf(clock)
                       /\ Truthy(d.end)
                       /\ r \in LocalCounterparts(lAct[k], d) }

\* C31: the merge adopts a remote close: when the pull meets a closed remote
\* activity record of today whose local counterpart is open, the local record
\* ends the pull closed with exactly the end time and duration of that remote
\* record (of the one met while the local record was open, when the remote
\* store holds several records of the same student and start).
C31_MergeAdoptsRemoteClose ==
    LET pull == sync_from_firestore(lStudents, lAtt, lAct, rStudents, rAtt, rAct,
                                    clock, firebase_db)
    IN  firebase_db =>
          \A k \in Kinds : \A r \in lAct[k] :
              (r.end = NULL /\ ClosedRemoteOf(k, r) # {}) =>
                  /\ r \notin pull.lact[k]
                  /\ \E d \in ClosedRemoteOf(k, r) :
                        [r EXCEPT !.end = d.end, !.dur = d.dur] \in pull.lact[k]

\* a pull has just closed a local record with the end another kiosk wrote
C31_Witness ==
    /\ last.op = "sync_from_firestore"
    /\ \E k \in Kinds : \E d \in rAct[k] : \E r \in LocalCounterparts(lAct[k], d) :
          /\ Truthy(d.end) /\ r.end = d.end /\ r.dur = d.dur
          /\ r.start = Sql(d.start.t)

\* C32: the push is an upsert: right after a push that left nothing dirty,
\* the remote row with the (student, start) of a local break of today is
\* closed when the local break is, with the local end, also when an earlier
\* push uploaded the row while the break was open.
C32_PushIsUpsert ==
    (last.op = "sync_to_google_sheets" /\ pending = NoPending) =>
        \A r \in breaks_of_today(lStudents, lAct["bathroom"], clock) :
            \A e \in rAct["bathroom"] :
                (e.uid = r.uid /\ e.start = r.start /\ Truthy(r.end)) => e.end = r.end

\* C33: in the remote store no two activity records of one kind share the
\* composite key (student identifier, start timestamp).
C33_RemoteKeyUnique ==
    \A k \in Kinds : \A d, e \in rAct[k] :
        (d.uid = e.uid /\ d.start.t = e.start.t) => d = e


\* a step deletes a buffered local row (a row whose key is gone afterwards)
LocalRowsDeleted ==
    \/ \E a \in lAtt : ~\E b \in lAtt' : b.uid = a.uid /\ b.date = a.date
    \/ \E k \in OFKinds : \E r \in lAct[k] :
          ~\E q \in lAct'[k] : q.uid = r.uid /\ q.start = r.start

\* C34: the buffered local rows are deleted only by a step whose push of
\* them went through completely (every row the push selects is then a
\* remote document); that step empties attendance and both activity tables
\* and leaves the local students table as it was.
C34_ClearOnlyAfterPush ==
    [][ LocalRowsDeleted =>
          /\ lStudents' = lStudents
          /\ lAtt' = {}
          /\ \A k \in OFKinds : lAct'[k] = {}
          /\ OF_attendance_docs(lStudents, lAtt) \subseteq rAtt'
          /\ \A k \in OFKinds :
                OF_activity_docs(lStudents, lAct[k]) \subseteq rAct'[k] ]_vars

C34_Witness ==
    /\ local_db /\ lStudents # {}
    /\ lAtt = {} /\ \A k \in OFKinds : lAct[k] = {}
    /\ \E d \in rAtt : d.doc[1] = "key"

\* C35: every remote write of the push goes through the retry wrapper: a push
\* that meets one rate-limit answer at the first write of any table it has to
\* write still goes through (the write is repeated within the same push), and
\* the wrapper makes at most MaxRetries calls per write.
C35_EveryWriteRetried ==
    /\ \A answers \in RetryAnswers :
          retry_attempts(answers, 0, MaxRetries, 0).calls <= MaxRetries
    /\ \A t \in SheetTables : \A msg \in QuotaMessages :
          (firebase_db /\ pending[t])
          => \A first \in FirstBreaks(breaks_of_today(lStudents, lAct["bathroom"],
                                                      clock)) :
               LET push == sync_to_google_sheets(lStudents, lAtt, lAct, rStudents,
                                                 rAtt, rAct, pending, clock,
                                                 firebase_db, t,
                                                 << msg, "ok" >>, first)
               IN  push.ok /\ push.p = NoPending

\* the places of the worker inside the push: waiting for changes_lock, writing
SyncPushPlaces == {"push_lock", "push"}

\* C36: in every cycle of the sync worker the pull is entered only from the
\* sleep of the interval and only with sync_active set, the pull is always
\* followed by the push and the push is entered only from the pull, after the
\* push nothing more happens until the next sleep (so each happens once per
\* interval), and a worker that wakes up with sync_active cleared does
\* neither.
C36_CyclePullThenPush ==
    [][ /\ (pc'.sync = "pull" /\ pc.sync # "pull")
            => (pc.sync = "sleep" /\ sync_active)
        /\ (pc.sync = "pull" /\ pc'.sync # "pull") => pc'.sync = "push_lock"
        /\ (pc'.sync = "push_lock" /\ pc.sync # "push_lock") => pc.sync = "pull"
        /\ (pc'.sync = "push" /\ pc.sync # "push") => pc.sync = "push_lock"
        /\ (pc.sync \in SyncPushPlaces /\ pc'.sync \notin SyncPushPlaces)
            => pc'.sync = "loop"
        /\ (pc.sync = "loop" /\ pc'.sync # "loop") => pc'.sync \in {"sleep", "exit"}
        /\ (pc.sync = "sleep" /\ ~sync_active)
            => (pc'.sync \in {"sleep", "loop"}
                /\ << lStudents, lAtt, lAct, rStudents, rAtt, rAct, pending >>'
                     = << lStudents, lAtt, lAct, rStudents, rAtt, rAct, pending >>)
      ]_vars

\* a cycle has pulled and then pushed a check-in made on the kiosk
C36_Witness ==
    /\ pc.sync = "loop"
    /\ last.op = "sync_to_firestore"
    /\ rAtt # {}
    /\ pending = NoPending

\* the probe succeeds and the monitor thread is making its rounds
ProbeSucceeds == net /\ check_active /\ pc.check = "sleep" /\ pc.main = "run"

\* C37: if from some point on the probe keeps succeeding while the monitor
\* thread runs (and a round whose remote set-up and push succeed is not refused
\* for ever), then the controller reaches mode = online and stays there,
\* also after a failed transition attempt; no force_sync is called.
C37_ReconnectEventually == <>[]ProbeSucceeds => <>[](mode = "online")

\* C38: once init_databases has returned, in every state a call of the GUI
\* thread can observe, mode = online comes with the remote handle and
\* mode = offline with the local store, so the proxies always find a store
\* (none of them answers "Database not available").
C38_ModeHasStore ==
    pc.main = "run" =>
        /\ (mode = "online" => firebase_db)
        /\ (mode = "offline" => local_db)
        /\ Route # "none"

\* C39: while _transition_to_online has not yet pushed the buffered local
\* rows, a student whose bathroom break is open in the local buffer is not
\* served from the remote store: is_on_break answers True for them, and
\* start_bathroom_break does not add a bathroom record to the remote store.
C39_NoStaleRead ==
    (pc.main = "run" /\ pc.check = "push" /\ local_db) =>
        \A scan \in Scans :
            LET identifier == get_identifier(scan[1], scan[2])
                started == Fb_start_activity("bathroom", rStudents, rAtt,
                                             rAct["bathroom"], identifier, clock, NULL)
            IN  L_open_of(lAct["bathroom"], identifier) # {} =>
                    /\ Route # "firebase"
                    /\ OF_is_on_break(identifier)
                    /\ (Route = "firebase" => started.coll = rAct["bathroom"])

\* C40: a start call for a student who has an open record of that kind adds
\* no record, and afterwards the student has no open record of the kind; so
\* no student ever has two open records of one kind in the remote store.
C40_StartOnOpenActsAsEnd ==
    \A k \in Kinds :
        \A scan \in Scans :
            LET identifier == get_identifier(scan[1], scan[2])
                open == Fb_open_of(rAct[k], identifier)
            IN  /\ Cardinality(open) <= 1
                /\ \A pick \in open :
                      LET r == Fb_start_activity(k, rStudents, rAtt, rAct[k],
                                                 identifier, clock, pick)
                      IN  /\ Cardinality(r.coll) = Cardinality(rAct[k])
                          /\ Fb_open_of(r.coll, identifier) = {}

=============================================================================
